---- MODULE Spec2Model ----
(***************************************************************************)
(* Update controller of the payram agent: release layout, update lock,     *)
(* status store, and the apply / rollback handlers of the admin surface.   *)
(*                                                                         *)
(* The home directory is modelled by the variables links (the symlinks at  *)
(* the home root), releases (the directories under releases/), residue     *)
(* (staging directories left behind), lock (lock/update.lock) and          *)
(* statusFile (state/update_status.json).  Each admin request task is a    *)
(* process of Procs whose position and locals live in call[p].             *)
(***************************************************************************)
EXTENDS Integers, Sequences, FiniteSets, TLC

\* ---------------------------------------------------------------- bounds
NumVersions == 1
\* handler calls that get past the update lock in one behaviour
MaxCalls == 2
\* largest backoff a supervisor configuration names, in units
MaxBackoffUnits == 3
\* calls of Supervisor.RestartAll in one behaviour
MaxRestartAlls == 2
\* child processes that exit on their own in one behaviour
MaxExits == 1
\* largest capacity of a log ring buffer
MaxCapacity == 3
\* lines added to the log buffers in one behaviour
MaxAppends == 4
\* entries of the admin allowlist
MaxAllowEntries == 2
\* admitted admin requests in one behaviour
MaxServed == 1
\* bits of a network address
AddrWidth == 1
\* characters of a token or of a header's credentials
MaxStrLen == 2
\* calls against the secret store in one behaviour
MaxSecretCalls == 4
\* largest number in a part of a version string
MaxPart == 1
\* the saves one writer makes, and the longest document, in bytes
MaxSaves == 2
MaxDocLen == 2

VersionNames == <<"0.0.0", "1.0.0", "2.0.0", "3.0.0", "4.0.0">>
Versions == {VersionNames[i] : i \in 1..(NumVersions + 1)}
SeedVersion == "0.0.0"
\* Two request tasks of the admin server: enough for every pair of calls.
Procs == {"r1", "r2"}

\* ------------------------------------------------------------- constants
chatBinaryName == "payram-analytics-chat"
mcpBinaryName == "payram-analytics-mcp"
chatLink == "chat"
mcpLink == "mcp"

VARIABLES links, releases, residue, lock, statusFile, call, seedResult, calls, faulty,
          swap, sup, logs, auth, sec, compat, doc

vars == <<links, releases, residue, lock, statusFile, call, seedResult, calls, faulty,
          swap, sup, logs, auth, sec, compat, doc>>

fsVars == <<links, releases, residue>>
\* What the update handlers and the seed never write.
confVars == <<faulty, swap, sup, logs, auth, sec, compat, doc>>
\* The update controller's own state.
updVars == <<links, releases, residue, lock, statusFile, call, seedResult, calls, faulty>>

\* ------------------------------------------------------- release layout
NoTarget == <<>>

\* The four link names UpdateSymlinks works on, none of them present.
NoLinks == [current |-> NoTarget, previous |-> NoTarget,
            currentTmp |-> NoTarget, previousTmp |-> NoTarget]

ReleaseDir(version) == <<"releases", version>>

VersionFromTarget(target) ==
    IF target = NoTarget THEN "" ELSE target[Len(target)]

\* A symlink target resolves when it names an existing release directory.
Resolves(target) ==
    /\ target # NoTarget
    /\ Len(target) = 2
    /\ target[1] = "releases"
    /\ target[2] \in DOMAIN releases

RemoveAll(rels, version) ==
    [v \in (DOMAIN rels) \ {version} |-> rels[v]]

PutDir(rels, version, files) ==
    [v \in (DOMAIN rels) \cup {version} |-> IF v = version THEN files ELSE rels[v]]

\* UpdateSymlinks(newTarget): failAt names the filesystem step that fails
\* ("none" when every step succeeds).  Symlinking to an empty target always
\* fails (ENOENT).
SymlinkSteps == {"none", "prevSymlink", "prevRename", "curSymlink", "curRename"}

UpdateSymlinks(lk, newTarget, failAt) ==
    LET oldTarget == lk.current
        prevFails == oldTarget # NoTarget /\ failAt \in {"prevSymlink", "prevRename"}
        \* after the previous-link stage
        lk1 == IF oldTarget = NoTarget THEN lk
               ELSE IF failAt = "prevSymlink" THEN [lk EXCEPT !.previousTmp = NoTarget]
               ELSE IF failAt = "prevRename" THEN [lk EXCEPT !.previousTmp = NoTarget]
               ELSE [lk EXCEPT !.previous = oldTarget, !.previousTmp = NoTarget]
        curSymFails == newTarget = NoTarget \/ failAt = "curSymlink"
        curFails == curSymFails \/ failAt = "curRename"
        lk2 == IF curFails THEN [lk1 EXCEPT !.currentTmp = NoTarget]
               ELSE [lk1 EXCEPT !.current = newTarget, !.currentTmp = NoTarget]
    IN  IF prevFails
        THEN [links |-> lk1, old |-> oldTarget, err |-> TRUE]
        ELSE [links |-> lk2, old |-> oldTarget, err |-> curFails]

EnsureCompatSymlinksNone(files) ==
    [files |-> files,
     err |-> chatBinaryName \notin files \/ mcpBinaryName \notin files]

\* EnsureCompatSymlinks(releaseDir) on the file set of the directory.
EnsureCompatSymlinks(files) ==
    IF chatBinaryName \notin files
    THEN [files |-> files, err |-> TRUE]
    ELSE IF mcpBinaryName \notin files
    THEN [files |-> files \cup {chatLink}, err |-> TRUE]
    ELSE [files |-> files \cup {chatLink, mcpLink}, err |-> FALSE]

\* --------------------------------------------------------- status store
ZeroStatus ==
    [CurrentVersion |-> "", PreviousVersion |-> "", LastSuccessVersion |-> "",
     LastAttemptVersion |-> "", LastErrorCode |-> "", LastErrorMessage |-> "",
     InProgress |-> FALSE]

NoFile == <<>>

LoadStatus == IF statusFile = NoFile THEN ZeroStatus ELSE statusFile[1]

\* SaveStatus(st): ok = FALSE is an I/O failure, which leaves the file as it was.
SaveStatus(st, ok) == IF ok THEN <<st>> ELSE statusFile

MarkAttempt(s) ==
    [s EXCEPT !.InProgress = TRUE, !.LastAttemptVersion = "",
              !.LastErrorCode = "", !.LastErrorMessage = ""]

\* Fault variant of MarkSuccess: last_success_version is not updated.
MarkSuccessNoLast(s, current, previous) ==
    [s EXCEPT !.CurrentVersion = current, !.PreviousVersion = previous,
              !.InProgress = FALSE]

MarkSuccess(s, current, previous) ==
    [s EXCEPT !.CurrentVersion = current, !.PreviousVersion = previous,
              !.LastSuccessVersion = current, !.InProgress = FALSE]

\* MarkFailure with in_progress left as it is
MarkFailureKeepsFlag(s, code, msg) ==
    [s EXCEPT !.LastErrorCode = code, !.LastErrorMessage = msg]

MarkFailure(s, code, msg) ==
    [s EXCEPT !.LastErrorCode = code, !.LastErrorMessage = msg, !.InProgress = FALSE]

\* Outcomes of local file I/O (status file, lock file, staging directory,
\* symlink steps): it succeeds unless the run is one with a faulty disk.
IOOutcomes == IF faulty THEN BOOLEAN ELSE {TRUE}
SymlinkFaults == IF faulty THEN SymlinkSteps ELSE {"none"}

\* ------------------------------------------------------- request tasks
NoManifest == [Version |-> "", Revoked |-> FALSE]
NoStage == <<>>
NoPre == <<>>

\* What the compatibility gate of apply met: whether PAYRAM_AGENT_IGNORE_COMPAT
\* is on, and what stood in the way ("" when nothing did).
NoGate == [ignore |-> FALSE, cause |-> ""]

\* The locals of one handler invocation.  lastSave is the outcome of the most
\* recent SaveStatus of the call ("none" before the first), log the steps it
\* has completed, pre the home directory as it was when the lock was taken,
\* gate what the compatibility gate met (kept until staging begins),
\* cancelled whether the caller has gone away (r.Context() is done) and
\* cancelAfter which of the switch and the health wait it had completed then.
IdleCall ==
    [pc |-> "idle", op |-> "", status |-> ZeroStatus, manifest |-> NoManifest,
     oldTarget |-> NoTarget, prevTarget |-> NoTarget, previousVersion |-> "",
     stageDir |-> NoStage, result |-> "", deferSave |-> FALSE, holds |-> FALSE,
     restarts |-> 0, warnings |-> FALSE, lastSave |-> "none", log |-> <<>>,
     pre |-> NoPre, gate |-> NoGate, cancelled |-> FALSE,
     cancelAfter |-> ""]

Snapshot == <<[links |-> links, releases |-> releases, residue |-> residue,
               statusFile |-> statusFile]>>

Manifests == [Version : Versions, Revoked : BOOLEAN]

Event(c, e) == [c EXCEPT !.log = Append(c.log, e)]

\* Leave the handler body with a response code.  After the deferred save has
\* been registered the deferred functions run (DEFER_SAVE, then UNLOCK);
\* before that only the unlock is pending.
Respond(c, code) ==
    [c EXCEPT !.result = code,
              !.pc = IF c.deferSave THEN "DEFER_SAVE" ELSE "UNLOCK"]

\* SaveStatus(st) by task p, whose locals become c.
SaveThen(p, c, st, ok) ==
    /\ statusFile' = SaveStatus(st, ok)
    /\ call' = [call EXCEPT ![p] =
                  [c EXCEPT !.status = st, !.lastSave = IF ok THEN "ok" ELSE "failed"]]

\* status.MarkFailure(code, msg); _ = SaveStatus(status); RespondError(code)
FailRecorded(p, c, code) ==
    \E ok \in IOOutcomes :
        SaveThen(p, Respond(c, code), MarkFailure(c.status, code, "error"), ok)

\* if err := SaveStatus(st); err != nil { RespondError(STATUS_SAVE_FAILED) }
SaveOrFail(p, c, st, next) ==
    \E ok \in IOOutcomes :
        SaveThen(p, IF ok THEN [c EXCEPT !.pc = next] ELSE Respond(c, "STATUS_SAVE_FAILED"),
                 st, ok)

\* RespondError(code) with no status record.
FailPlain(p, c, code) ==
    /\ call' = [call EXCEPT ![p] = Respond(c, code)]
    /\ UNCHANGED statusFile

Goto(p, c, next) ==
    /\ call' = [call EXCEPT ![p] = [c EXCEPT !.pc = next]]
    /\ UNCHANGED statusFile

\* Fault variant of AcquireUpdateLock: the lock file opened without O_EXCL,
\* so an existing lock file is no obstacle.
AcquireUpdateLockNoExcl(p, op, next) ==
    /\ call[p].pc = "idle"
    /\ calls < MaxCalls
    /\ lock' = TRUE
    /\ calls' = calls + 1
    /\ call' = [call EXCEPT ![p] = [IdleCall EXCEPT !.pc = next, !.op = op,
                                       !.holds = TRUE, !.pre = Snapshot]]
    /\ UNCHANGED <<fsVars, statusFile, seedResult, confVars>>

\* AcquireUpdateLock at the head of both handlers (O_CREATE|O_EXCL).
AcquireUpdateLock(p, op, next) ==
    /\ call[p].pc = "idle"
    /\ \/ /\ lock
          /\ call' = [call EXCEPT ![p] = [IdleCall EXCEPT !.pc = "REFUSED", !.op = op,
                                             !.result = "UPDATE_IN_PROGRESS"]]
          /\ UNCHANGED <<lock, calls>>
       \/ /\ ~lock
          /\ faulty
          /\ call' = [call EXCEPT ![p] = [IdleCall EXCEPT !.pc = "REFUSED", !.op = op,
                                             !.result = "LOCK_FAILED"]]
          /\ UNCHANGED <<lock, calls>>
       \/ /\ ~lock
          /\ calls < MaxCalls
          /\ lock' = TRUE
          /\ calls' = calls + 1
          /\ call' = [call EXCEPT ![p] = [IdleCall EXCEPT !.pc = next, !.op = op,
                                             !.holds = TRUE, !.pre = Snapshot]]
    /\ UNCHANGED <<fsVars, statusFile, seedResult, confVars>>

LastEvent(lg) == IF lg = <<>> THEN "" ELSE lg[Len(lg)]

\* How far a call has come: past the health wait, past the switch, or neither.
Phase(lg) ==
    IF \E i \in 1..Len(lg) : lg[i] = "HEALTH" THEN "HEALTH"
    ELSE IF \E i \in 1..Len(lg) : lg[i] = "SWITCH" THEN "SWITCH"
    ELSE ""

\* The caller of a request that is being served goes away before it is
\* answered: net/http cancels r.Context(); the handler goroutine runs on.
RequestCancel(p) ==
    /\ call[p].holds
    /\ call[p].result = ""
    /\ ~call[p].cancelled
    /\ call' = [call EXCEPT ![p].cancelled = TRUE,
                            ![p].cancelAfter = Phase(call[p].log)]
    /\ UNCHANGED <<fsVars, lock, statusFile, seedResult, confVars, calls>>

\* ------------------------------------------------------ updateApplyHandler
ApplyAcquire(p) == AcquireUpdateLock(p, "apply", "MARK_ATTEMPT")

\* LoadStatus; status.MarkAttempt(); SaveStatus; defer { InProgress=false; save }
ApplyMarkAttempt(p) ==
    /\ call[p].pc = "MARK_ATTEMPT"
    /\ \E loadOK \in IOOutcomes :
          IF ~loadOK THEN FailPlain(p, call[p], "STATUS_LOAD_FAILED")
          ELSE \E ok \in IOOutcomes :
                  LET st == MarkAttempt(LoadStatus)
                      c == [call[p] EXCEPT !.status = st]
                  IN  SaveThen(p, IF ok THEN [c EXCEPT !.deferSave = TRUE, !.pc = "CONFIG"]
                                  ELSE Respond(c, "STATUS_SAVE_FAILED"),
                               st, ok)
    /\ UNCHANGED <<fsVars, lock, seedResult, confVars, calls>>

\* The process environment as the handler reads it with os.Getenv: whether
\* each variable is set to a usable value.
Envs == [baseURL : BOOLEAN, pubkey : BOOLEAN]
CompatEnvs == [coreURL : BOOLEAN, ignoreCompat : BOOLEAN]

\* PAYRAM_AGENT_UPDATE_BASE_URL and PAYRAM_AGENT_UPDATE_PUBKEY_B64 must be set.
ApplyConfig(p) ==
    /\ call[p].pc = "CONFIG"
    /\ \E env \in Envs :
          IF ~env.baseURL THEN FailPlain(p, call[p], "UPDATE_BASE_URL_MISSING")
          ELSE IF ~env.pubkey THEN FailPlain(p, call[p], "UPDATE_PUBKEY_MISSING")
          ELSE Goto(p, call[p], "FETCH")
    /\ UNCHANGED <<fsVars, lock, seedResult, confVars, calls>>

\* update.FetchManifest(r.Context(), baseURL, channel)
ApplyFetch(p) ==
    /\ call[p].pc = "FETCH"
    /\ \/ FailRecorded(p, call[p], "UPDATE_FETCH_FAILED")
       \/ /\ ~call[p].cancelled
          /\ \E m \in Manifests : Goto(p, [call[p] EXCEPT !.manifest = m], "VERIFY")
    /\ UNCHANGED <<fsVars, lock, seedResult, confVars, calls>>

\* Fault variant of ApplyVerify: the manifest's version is put into
\* last_attempt_version before the signature is checked.
ApplyVerifyAfterRecord(p) ==
    /\ call[p].pc = "VERIFY"
    /\ LET c == [call[p] EXCEPT !.status.LastAttemptVersion = call[p].manifest.Version]
       IN  \/ FailRecorded(p, c, "SIGNATURE_INVALID")
           \/ Goto(p, c, "RECORD_TARGET")
    /\ UNCHANGED <<fsVars, lock, seedResult, confVars, calls>>

\* update.VerifyManifest
ApplyVerify(p) ==
    /\ call[p].pc = "VERIFY"
    /\ \/ FailRecorded(p, call[p], "SIGNATURE_INVALID")
       \/ Goto(p, call[p], "RECORD_TARGET")
    /\ UNCHANGED <<fsVars, lock, seedResult, confVars, calls>>

\* status.LastAttemptVersion = manifest.Version; SaveStatus
ApplyRecordTarget(p) ==
    /\ call[p].pc = "RECORD_TARGET"
    /\ SaveOrFail(p, call[p],
                  [call[p].status EXCEPT !.LastAttemptVersion = call[p].manifest.Version],
                  "CHECK_REVOKED")
    /\ UNCHANGED <<fsVars, lock, seedResult, confVars, calls>>

ApplyCheckRevoked(p) ==
    /\ call[p].pc = "CHECK_REVOKED"
    /\ IF call[p].manifest.Revoked THEN FailRecorded(p, call[p], "REVOKED_RELEASE")
       ELSE Goto(p, call[p], "COMPAT")
    /\ UNCHANGED <<fsVars, lock, seedResult, confVars, calls>>

\* The compatibility gate.  core is the outcome of GetPayramCoreVersion
\* followed by IsCompatible against the manifest range.
CoreOutcomes == {"unreachable", "compatible", "incompatible"}

\* GetPayramCoreVersion(r.Context(), coreURL) gets no answer once the
\* request is cancelled.
CoreReplies(c) == IF c.cancelled THEN {"unreachable"} ELSE CoreOutcomes

ApplyCompatWarnsNever(p) ==
    /\ call[p].pc = "COMPAT"
    /\ \E env \in CompatEnvs, core \in CoreReplies(call[p]) :
          LET cause == IF ~env.coreURL THEN "nourl"
                       ELSE IF core = "compatible" THEN "" ELSE core
              c == [call[p] EXCEPT !.gate = [ignore |-> env.ignoreCompat, cause |-> cause]]
          IN  IF cause = "" \/ env.ignoreCompat THEN Goto(p, c, "STAGE")
              ELSE FailRecorded(p, c, "CORE_UNREACHABLE")
    /\ UNCHANGED <<fsVars, lock, seedResult, confVars, calls>>

ApplyCompat(p) ==
    /\ call[p].pc = "COMPAT"
    /\ \E env \in CompatEnvs, core \in CoreReplies(call[p]) :
          LET cause == IF ~env.coreURL THEN "nourl"
                       ELSE IF core = "compatible" THEN "" ELSE core
              c == [call[p] EXCEPT !.gate = [ignore |-> env.ignoreCompat, cause |-> cause]]
              warned == [c EXCEPT !.warnings = TRUE]
          IN  IF ~env.coreURL
              THEN IF env.ignoreCompat THEN Goto(p, warned, "STAGE")
                   ELSE FailRecorded(p, c, "CORE_URL_MISSING")
              ELSE CASE core = "unreachable" ->
                          IF env.ignoreCompat THEN Goto(p, warned, "STAGE")
                          ELSE FailRecorded(p, c, "CORE_UNREACHABLE")
                     [] core = "incompatible" ->
                          IF env.ignoreCompat THEN Goto(p, warned, "STAGE")
                          ELSE FailRecorded(p, c, "INCOMPATIBLE_CORE")
                     [] core = "compatible" -> Goto(p, c, "STAGE")
    /\ UNCHANGED <<fsVars, lock, seedResult, confVars, calls>>

\* Leave a staging directory behind under releases/ (the handler never removes
\* it); residue counts the <version>.tmp-<hex> directories lying there.
Abandon(c) ==
    IF c.stageDir = NoStage THEN residue ELSE residue + 1

\* os.RemoveAll(stageDir); os.MkdirAll(stageDir)
ApplyStage(p) ==
    /\ call[p].pc = "STAGE"
    /\ LET c == [call[p] EXCEPT !.gate = NoGate]
       IN  \/ /\ faulty
              /\ FailRecorded(p, c, "STAGE_CREATE_FAILED")
           \/ Goto(p, Event([c EXCEPT !.stageDir = <<{}>>], "STAGE"), "STAGE_CHAT")
    /\ UNCHANGED <<fsVars, lock, seedResult, confVars, calls>>

\* download(url, path, sha): DownloadToFile, VerifySHA256, Chmod.
\* A failed transfer removes its .part file; a hash mismatch leaves the file.
\* DownloadToFile(r.Context(), ...) fails once the request is cancelled.
DownloadOutcomes == {"ok", "download", "sha256"}

Download(p, name, next, event) ==
    \E outcome \in IF call[p].cancelled THEN {"download"} ELSE DownloadOutcomes :
        LET files == call[p].stageDir[1]
            got == IF outcome = "download" THEN files ELSE files \cup {name}
            c == [call[p] EXCEPT !.stageDir = <<got>>]
        IN  IF outcome = "ok"
            THEN /\ Goto(p, Event(c, event), next)
                 /\ UNCHANGED residue
            ELSE /\ residue' = Abandon(c)
                 /\ FailRecorded(p, [c EXCEPT !.stageDir = NoStage], "UPDATE_DOWNLOAD_FAILED")

ApplyStageChat(p) ==
    /\ call[p].pc = "STAGE_CHAT"
    /\ Download(p, chatBinaryName, "STAGE_MCP", "VERIFIED_CHAT")
    /\ UNCHANGED <<links, releases, lock, seedResult, confVars, calls>>

ApplyStageMCP(p) ==
    /\ call[p].pc = "STAGE_MCP"
    /\ Download(p, mcpBinaryName, "PROMOTE", "VERIFIED_MCP")
    /\ UNCHANGED <<links, releases, lock, seedResult, confVars, calls>>

\* _ = os.RemoveAll(releaseDir)
ApplyPromoteRemove(p) ==
    /\ call[p].pc = "PROMOTE"
    /\ releases' = RemoveAll(releases, call[p].manifest.Version)
    /\ Goto(p, call[p], "PROMOTE_RENAME")
    /\ UNCHANGED <<links, residue, lock, seedResult, confVars, calls>>

\* os.Rename(stageDir, releaseDir)
ApplyPromoteRename(p) ==
    /\ call[p].pc = "PROMOTE_RENAME"
    /\ \/ /\ faulty
          /\ residue' = Abandon(call[p])
          /\ FailRecorded(p, [call[p] EXCEPT !.stageDir = NoStage], "FINALIZE_FAILED")
          /\ UNCHANGED releases
       \/ /\ releases' = PutDir(releases, call[p].manifest.Version, call[p].stageDir[1])
          /\ Goto(p, Event([call[p] EXCEPT !.stageDir = NoStage], "PROMOTE"), "PROMOTE_COMPAT")
          /\ UNCHANGED residue
    /\ UNCHANGED <<links, lock, seedResult, confVars, calls>>

\* update.EnsureCompatSymlinks(releaseDir)
ApplyPromoteCompat(p) ==
    /\ call[p].pc = "PROMOTE_COMPAT"
    /\ LET v == call[p].manifest.Version
           r == EnsureCompatSymlinks(releases[v])
       IN  /\ releases' = PutDir(releases, v, r.files)
           /\ IF r.err THEN FailRecorded(p, call[p], "FINALIZE_FAILED")
              ELSE Goto(p, call[p], "SWITCH")
    /\ UNCHANGED <<links, residue, lock, seedResult, confVars, calls>>

\* oldTarget, err := update.UpdateSymlinks(releaseDir)
ApplySwitch(p) ==
    /\ call[p].pc = "SWITCH"
    /\ \E failAt \in SymlinkFaults :
          LET r == UpdateSymlinks(links, ReleaseDir(call[p].manifest.Version), failAt)
              c == [call[p] EXCEPT !.oldTarget = r.old]
          IN  /\ links' = r.links
              /\ IF r.err THEN FailRecorded(p, c, "SYMLINK_UPDATE_FAILED")
                 ELSE Goto(p, Event(c, "SWITCH"), "RECORD_SWITCH")
    /\ UNCHANGED <<releases, residue, lock, seedResult, confVars, calls>>

\* Fault variant of ApplyRecordSwitch: the handler goes on to the health probe
\* without asking the supervisor to restart.
ApplyRecordSwitchNoRestart(p) ==
    /\ call[p].pc = "RECORD_SWITCH"
    /\ LET pv == VersionFromTarget(call[p].oldTarget)
           st == [call[p].status EXCEPT !.CurrentVersion = call[p].manifest.Version,
                                        !.PreviousVersion = pv]
       IN  SaveOrFail(p, Event([call[p] EXCEPT !.previousVersion = pv], "RECORD_SWITCH"),
                      st, "HEALTH")
    /\ UNCHANGED <<fsVars, lock, seedResult, confVars, calls>>

\* previousVersion := VersionFromTarget(oldTarget); status.CurrentVersion,
\* status.PreviousVersion; SaveStatus
ApplyRecordSwitch(p) ==
    /\ call[p].pc = "RECORD_SWITCH"
    /\ LET pv == VersionFromTarget(call[p].oldTarget)
           st == [call[p].status EXCEPT !.CurrentVersion = call[p].manifest.Version,
                                        !.PreviousVersion = pv]
       IN  SaveOrFail(p, Event([call[p] EXCEPT !.previousVersion = pv], "RECORD_SWITCH"),
                      st, "RESTART")
    /\ UNCHANGED <<fsVars, lock, seedResult, confVars, calls>>

\* Supervisor.RestartAll triggers both children and always returns nil.
RestartAllFails == FALSE

\* sup.RestartAll()
ApplyRestart(p) ==
    /\ call[p].pc = "RESTART"
    /\ LET c == [call[p] EXCEPT !.restarts = call[p].restarts + 1]
       IN  IF RestartAllFails THEN FailRecorded(p, c, "RESTART_FAILED")
           ELSE Goto(p, Event(c, "RESTART"), "HEALTH")
    /\ UNCHANGED <<fsVars, lock, seedResult, confVars, calls>>

\* Fault variant of ApplyHealth: the wait is bound to the request and the
\* handler returns when the caller has gone away.
ApplyHealthWithRequest(p) ==
    /\ call[p].pc = "HEALTH"
    /\ IF call[p].cancelled THEN FailPlain(p, call[p], "CANCELLED")
       ELSE \E healthy \in BOOLEAN :
               Goto(p, Event(call[p], "HEALTH"),
                    IF healthy THEN "SUCCESS" ELSE "ROLLBACK_SWITCH")
    /\ UNCHANGED <<fsVars, lock, seedResult, confVars, calls>>

\* waitForHealth(chatPort, mcpPort, healthTimeout()): nil when both children
\* answered 200 before the deadline.  It takes no context.
ApplyHealth(p) ==
    /\ call[p].pc = "HEALTH"
    /\ \E healthy \in BOOLEAN :
          Goto(p, Event(call[p], "HEALTH"), IF healthy THEN "SUCCESS" ELSE "ROLLBACK_SWITCH")
    /\ UNCHANGED <<fsVars, lock, seedResult, confVars, calls>>

\* _, _ = update.UpdateSymlinks(oldTarget)
ApplyRollbackSwitch(p) ==
    /\ call[p].pc = "ROLLBACK_SWITCH"
    /\ \E failAt \in SymlinkFaults :
          links' = UpdateSymlinks(links, call[p].oldTarget, failAt).links
    /\ Goto(p, call[p], "ROLLBACK_RESTART")
    /\ UNCHANGED <<releases, residue, lock, seedResult, confVars, calls>>

\* _ = sup.RestartAll()
ApplyRollbackRestart(p) ==
    /\ call[p].pc = "ROLLBACK_RESTART"
    /\ Goto(p, [call[p] EXCEPT !.restarts = call[p].restarts + 1], "ROLLBACK_RECORD")
    /\ UNCHANGED <<fsVars, lock, seedResult, confVars, calls>>

\* reloaded := LoadStatus(); MarkFailure; swap versions; SaveStatus; status = reloaded
ApplyRollbackRecord(p) ==
    /\ call[p].pc = "ROLLBACK_RECORD"
    /\ \E loadOK \in IOOutcomes :
          IF ~loadOK THEN FailPlain(p, call[p], "STATUS_LOAD_FAILED")
          ELSE \E ok \in IOOutcomes :
                  LET v == call[p].manifest.Version
                      r1 == MarkFailure(LoadStatus, "UPDATE_FAILED_ROLLED_BACK", "error")
                      r2 == [r1 EXCEPT !.CurrentVersion = call[p].previousVersion,
                                       !.PreviousVersion = v]
                      reloaded == IF r2.LastAttemptVersion = ""
                                  THEN [r2 EXCEPT !.LastAttemptVersion = v] ELSE r2
                  IN  SaveThen(p, Respond(call[p], "UPDATE_FAILED_ROLLED_BACK"), reloaded, ok)
    /\ UNCHANGED <<fsVars, lock, seedResult, confVars, calls>>

\* status.MarkSuccess(manifest.Version, previousVersion); SaveStatus; RespondOK
ApplySuccess(p) ==
    /\ call[p].pc = "SUCCESS"
    /\ \E ok \in IOOutcomes :
          SaveThen(p, Respond(call[p], IF ok THEN "OK" ELSE "STATUS_SAVE_FAILED"),
                   MarkSuccess(call[p].status, call[p].manifest.Version,
                               call[p].previousVersion),
                   ok)
    /\ UNCHANGED <<fsVars, lock, seedResult, confVars, calls>>

\* Fault variant of DeferredSave: the status is saved as it stands, with
\* InProgress left alone.
DeferredSaveKeepsFlag(p) ==
    /\ call[p].pc = "DEFER_SAVE"
    /\ \E ok \in IOOutcomes :
          SaveThen(p, [call[p] EXCEPT !.pc = "UNLOCK"], call[p].status, ok)
    /\ UNCHANGED <<fsVars, lock, seedResult, confVars, calls>>

\* defer func() { status.InProgress = false; _ = update.SaveStatus(status) }()
DeferredSave(p) ==
    /\ call[p].pc = "DEFER_SAVE"
    /\ \E ok \in IOOutcomes :
          SaveThen(p, [call[p] EXCEPT !.pc = "UNLOCK"],
                   [call[p].status EXCEPT !.InProgress = FALSE], ok)
    /\ UNCHANGED <<fsVars, lock, seedResult, confVars, calls>>

\* The handler returns with the lock file left where it is.
UnlockKeepsFile(p) ==
    /\ call[p].pc = "UNLOCK"
    /\ call' = [call EXCEPT ![p] = IdleCall]
    /\ UNCHANGED <<fsVars, lock, statusFile, seedResult, confVars, calls>>

\* defer func() { _ = unlock() }(): os.Remove(lock file); the handler returns.
Unlock(p) ==
    /\ call[p].pc = "UNLOCK"
    /\ lock' = FALSE
    /\ call' = [call EXCEPT ![p] = IdleCall]
    /\ UNCHANGED <<fsVars, statusFile, seedResult, confVars, calls>>

\* A refused request has been answered (409 or 500); its task ends.
Finish(p) ==
    /\ call[p].pc = "REFUSED"
    /\ call' = [call EXCEPT ![p] = IdleCall]
    /\ UNCHANGED <<fsVars, lock, statusFile, seedResult, confVars, calls>>

\* --------------------------------------------------- updateRollbackHandler
RollbackAcquire(p) == AcquireUpdateLock(p, "rollback", "R_MARK_ATTEMPT")

\* LoadStatus; status.MarkAttempt(); _ = SaveStatus(status)
RollbackMarkAttempt(p) ==
    /\ call[p].pc = "R_MARK_ATTEMPT"
    /\ \E loadOK \in IOOutcomes :
          IF ~loadOK THEN FailPlain(p, call[p], "STATUS_LOAD_FAILED")
          ELSE \E ok \in IOOutcomes :
                  SaveThen(p, [call[p] EXCEPT !.pc = "R_READLINK"], MarkAttempt(LoadStatus), ok)
    /\ UNCHANGED <<fsVars, lock, seedResult, confVars, calls>>

\* Fault variant of RollbackReadlink: the empty target is not checked for and
\* goes on to the symlink update.
RollbackReadlinkNoCheck(p) ==
    /\ call[p].pc = "R_READLINK"
    /\ Goto(p, [call[p] EXCEPT !.prevTarget = links.previous], "R_SWITCH")
    /\ UNCHANGED <<fsVars, lock, seedResult, confVars, calls>>

\* Fault variant of RollbackReadlink: the target is read from the current
\* symlink instead of the previous one.
RollbackReadlinkCurrent(p) ==
    /\ call[p].pc = "R_READLINK"
    /\ IF links.previous = NoTarget
       THEN FailRecorded(p, call[p], "NO_PREVIOUS_VERSION")
       ELSE Goto(p, [call[p] EXCEPT !.prevTarget = links.current], "R_SWITCH")
    /\ UNCHANGED <<fsVars, lock, seedResult, confVars, calls>>

\* prevTarget, err := os.Readlink(PreviousSymlink())
RollbackReadlink(p) ==
    /\ call[p].pc = "R_READLINK"
    /\ \/ /\ faulty
          /\ links.previous # NoTarget
          /\ FailRecorded(p, call[p], "ROLLBACK_FAILED")
       \/ IF links.previous = NoTarget
          THEN FailRecorded(p, call[p], "NO_PREVIOUS_VERSION")
          ELSE Goto(p, [call[p] EXCEPT !.prevTarget = links.previous], "R_SWITCH")
    /\ UNCHANGED <<fsVars, lock, seedResult, confVars, calls>>

\* oldCurrent, err := update.UpdateSymlinks(prevTarget)
RollbackSwitch(p) ==
    /\ call[p].pc = "R_SWITCH"
    /\ \E failAt \in SymlinkFaults :
          LET r == UpdateSymlinks(links, call[p].prevTarget, failAt)
              c == [call[p] EXCEPT !.oldTarget = r.old]
          IN  /\ links' = r.links
              /\ IF r.err THEN FailRecorded(p, c, "SYMLINK_UPDATE_FAILED")
                 ELSE Goto(p, Event(c, "SWITCH"), "R_RESTART")
    /\ UNCHANGED <<releases, residue, lock, seedResult, confVars, calls>>

\* sup.RestartAll()
RollbackRestart(p) ==
    /\ call[p].pc = "R_RESTART"
    /\ LET c == [call[p] EXCEPT !.restarts = call[p].restarts + 1]
       IN  IF RestartAllFails THEN FailRecorded(p, c, "RESTART_FAILED")
           ELSE Goto(p, Event(c, "RESTART"), "R_HEALTH")
    /\ UNCHANGED <<fsVars, lock, seedResult, confVars, calls>>

\* waitForHealth after the rollback switch
RollbackHealth(p) ==
    /\ call[p].pc = "R_HEALTH"
    /\ \/ FailRecorded(p, Event(call[p], "HEALTH"), "ROLLBACK_HEALTH_FAILED")
       \/ Goto(p, Event(call[p], "HEALTH"), "R_RECORD")
    /\ UNCHANGED <<fsVars, lock, seedResult, confVars, calls>>

\* status.CurrentVersion/PreviousVersion from the targets; InProgress = false;
\* SaveStatus; RespondOK(rolled_back_to)
RollbackRecord(p) ==
    /\ call[p].pc = "R_RECORD"
    /\ \E ok \in IOOutcomes :
          LET s1 == [call[p].status EXCEPT
                         !.CurrentVersion = VersionFromTarget(call[p].prevTarget),
                         !.PreviousVersion = VersionFromTarget(call[p].oldTarget),
                         !.InProgress = FALSE]
              st == IF s1.LastAttemptVersion = ""
                    THEN [s1 EXCEPT !.LastAttemptVersion = s1.CurrentVersion] ELSE s1
          IN  SaveThen(p, Respond(call[p], IF ok THEN "OK" ELSE "STATUS_SAVE_FAILED"), st, ok)
    /\ UNCHANGED <<fsVars, lock, seedResult, confVars, calls>>

\* ------------------------------------------------------- EnsureSeedRelease
\* What the last call returned; cause names the step an error came from.
NoSeed == [created |-> FALSE, version |-> "", err |-> FALSE, ran |-> FALSE, cause |-> ""]

InFlight(p) == call[p].pc \notin {"idle", "REFUSED"}

\* The bootstrap runs when the agent starts, before it serves requests.
\* chatOK / mcpOK: whether the seed source could be copied.
EnsureSeedRelease ==
    /\ \A p \in Procs : ~InFlight(p)
    /\ ~lock
    /\ IF links.current # NoTarget
       THEN /\ seedResult' = [created |-> FALSE, version |-> "", err |-> FALSE, ran |-> TRUE,
                              cause |-> ""]
            /\ UNCHANGED <<links, releases, statusFile>>
       ELSE \E chatOK \in BOOLEAN, mcpOK \in BOOLEAN, failAt \in SymlinkSteps :
               LET have == IF SeedVersion \in DOMAIN releases
                           THEN releases[SeedVersion] ELSE {}
                   f1 == IF chatOK THEN have \cup {chatBinaryName} ELSE have
                   f2 == IF chatOK /\ mcpOK THEN f1 \cup {mcpBinaryName} ELSE f1
                   copied == chatOK /\ mcpOK
                   cr == EnsureCompatSymlinks(f2)
                   f3 == IF copied THEN cr.files ELSE f2
                   r == UpdateSymlinks(links, ReleaseDir(SeedVersion), failAt)
                   st == LoadStatus
               IN  /\ releases' = PutDir(releases, SeedVersion, f3)
                   /\ IF ~copied \/ cr.err
                      THEN /\ seedResult' = [created |-> FALSE, version |-> "",
                                             err |-> TRUE, ran |-> TRUE,
                                             cause |-> IF copied THEN "compat" ELSE "copy"]
                           /\ UNCHANGED <<links, statusFile>>
                      ELSE /\ links' = r.links
                           /\ IF r.err
                              THEN /\ seedResult' = [created |-> FALSE, version |-> "",
                                                     err |-> TRUE, ran |-> TRUE,
                                                     cause |-> "symlink"]
                                   /\ UNCHANGED statusFile
                              ELSE /\ seedResult' = [created |-> TRUE, version |-> SeedVersion,
                                                     err |-> FALSE, ran |-> TRUE,
                                                     cause |-> ""]
                                   /\ statusFile' =
                                        IF st.CurrentVersion = ""
                                        THEN SaveStatus([st EXCEPT !.CurrentVersion = SeedVersion],
                                                        TRUE)
                                        ELSE statusFile
    /\ UNCHANGED <<residue, lock, call, confVars, calls>>

\* ------------------------------------------- UpdateSymlinks, step by step
\* One invocation of UpdateSymlinks(newTarget) as the sequence of filesystem
\* calls it makes.  swap.lk is the four link names of the home, swap.dirs the
\* release directories that exist, swap.pre the links when the call began.
\* A process that stops does so in one of the states between two steps.
SwapIdle ==
    [pc |-> "off", lk |-> NoLinks, pre |-> NoLinks, dirs |-> {},
     newTarget |-> NoTarget, oldTarget |-> NoTarget, err |-> FALSE]

SwapStep(next, lk) ==
    /\ swap' = [swap EXCEPT !.pc = next, !.lk = lk]
    /\ UNCHANGED <<updVars, sup, logs, auth, sec, compat, doc>>

SwapFail(lk) ==
    /\ swap' = [swap EXCEPT !.pc = "returned", !.lk = lk, !.err = TRUE]
    /\ UNCHANGED <<updVars, sup, logs, auth, sec, compat, doc>>

\* oldTarget, _ := os.Readlink(current)
SwapReadlink ==
    /\ swap.pc = "readlink"
    /\ swap' = [swap EXCEPT !.oldTarget = swap.lk.current,
                            !.pc = IF swap.lk.current # NoTarget
                                   THEN "rmPrevTmp" ELSE "rmCurTmp"]
    /\ UNCHANGED <<updVars, sup, logs, auth, sec, compat, doc>>

\* _ = os.Remove(tmpPrev)
SwapRemovePrevTmp ==
    /\ swap.pc = "rmPrevTmp"
    /\ SwapStep("symPrev", [swap.lk EXCEPT !.previousTmp = NoTarget])

\* os.Symlink(oldTarget, tmpPrev)
SwapSymlinkPrev ==
    /\ swap.pc = "symPrev"
    /\ \/ SwapFail(swap.lk)
       \/ SwapStep("renPrev", [swap.lk EXCEPT !.previousTmp = swap.oldTarget])

\* os.Rename(tmpPrev, previous), on failure os.Remove(tmpPrev)
SwapRenamePrev ==
    /\ swap.pc = "renPrev"
    /\ \/ SwapFail([swap.lk EXCEPT !.previousTmp = NoTarget])
       \/ SwapStep("rmCurTmp", [swap.lk EXCEPT !.previous = swap.lk.previousTmp,
                                               !.previousTmp = NoTarget])

\* _ = os.Remove(tmpCur)
SwapRemoveCurTmp ==
    /\ swap.pc = "rmCurTmp"
    /\ SwapStep("symCur", [swap.lk EXCEPT !.currentTmp = NoTarget])

\* os.Symlink(newTarget, tmpCur); an empty target is refused (ENOENT)
SwapSymlinkCurReplacing ==
    /\ swap.pc = "symCur"
    /\ IF swap.newTarget = NoTarget THEN SwapFail(swap.lk)
       ELSE SwapStep("renCur", [swap.lk EXCEPT !.current = NoTarget,
                                               !.currentTmp = swap.newTarget])

SwapSymlinkCur ==
    /\ swap.pc = "symCur"
    /\ \/ SwapFail(swap.lk)
       \/ /\ swap.newTarget # NoTarget
          /\ SwapStep("renCur", [swap.lk EXCEPT !.currentTmp = swap.newTarget])

\* os.Rename(tmpCur, current), on failure os.Remove(tmpCur); return oldTarget, nil
SwapRenameCur ==
    /\ swap.pc = "renCur"
    /\ \/ SwapFail([swap.lk EXCEPT !.currentTmp = NoTarget])
       \/ SwapStep("returned", [swap.lk EXCEPT !.current = swap.lk.currentTmp,
                                               !.currentTmp = NoTarget])

\* ------------------------------------------------------------ supervisor
\* The two child loops (child.run), the restart slot of each (restartCh, a
\* channel of capacity 1), the parent context and the operating-system
\* process of each child.  Durations are in units of the smallest backoff.
Children == {"chat", "mcp"}

\* Config as New leaves it: both backoffs positive.
Configs ==
    {cfg \in [initialBackoff : 1..MaxBackoffUnits, maxBackoff : 1..MaxBackoffUnits] :
        cfg.initialBackoff <= cfg.maxBackoff}

\* newChild, followed by the first lines of run: backoff := c.initialBackoff.
\* proc is the operating-system process: "none", "alive", or "dead" (exited,
\* cmd.Wait not yet delivered on done).  enq, forced, prevDelay and reset
\* record the history: requests accepted by the slot, forced restarts done,
\* the last delay slept, and whether a long run or a forced restart happened
\* since.  While pc = "sleep" the delay being slept is backoff.
NewChild(cfg) ==
    [pc |-> "top", slot |-> 0, backoff |-> cfg.initialBackoff, proc |-> "none",
     pid |-> 0, restarts |-> 0, forced |-> 0, enq |-> 0, mode |-> "none",
     termSent |-> FALSE, killSent |-> FALSE, prevDelay |-> 0, reset |-> FALSE]

SupIdle ==
    [on |-> FALSE, cfg |-> [initialBackoff |-> 1, maxBackoff |-> 1],
     cancelled |-> FALSE, restartAlls |-> 0, exits |-> 0,
     child |-> [c \in Children |-> NewChild([initialBackoff |-> 1, maxBackoff |-> 1])]]

SetChild(c, ch) ==
    /\ sup' = [sup EXCEPT !.child[c] = ch]
    /\ UNCHANGED <<updVars, swap, logs, auth, sec, compat, doc>>

\* next := current * 2, with the cap left out
nextBackoffUncapped(current, maxBackoff) == current * 2

\* next := current * 2; if next > c.maxBackoff { return c.maxBackoff }
nextBackoff(current, maxBackoff) ==
    IF current * 2 > maxBackoff THEN maxBackoff ELSE current * 2

\* select { case c.restartCh <- struct{}{}: default: } with an unbounded queue
triggerRestartQueued(ch) ==
    [ch EXCEPT !.slot = ch.slot + 1, !.enq = ch.enq + 1]

\* select { case c.restartCh <- struct{}{}: default: }
triggerRestart(ch) ==
    IF ch.slot = 0 THEN [ch EXCEPT !.slot = 1, !.enq = ch.enq + 1] ELSE ch

\* recordExit(err, countRestart): pid = 0, restarts++ when counted
recordExit(ch, countRestart) ==
    [ch EXCEPT !.pid = 0,
               !.restarts = IF countRestart THEN ch.restarts + 1 ELSE ch.restarts]

\* c.sleep(ctx, backoff) begins
BeginSleep(ch) == [ch EXCEPT !.pc = "sleep"]

\* Supervisor.RestartAll: triggerRestart on both children
SupRestartAll ==
    /\ sup.on
    /\ sup.restartAlls < MaxRestartAlls
    /\ sup' = [sup EXCEPT !.restartAlls = sup.restartAlls + 1,
                          !.child = [c \in Children |-> triggerRestart(sup.child[c])]]
    /\ UNCHANGED <<updVars, swap, logs, auth, sec, compat, doc>>

\* The parent context is cancelled.
SupCancel ==
    /\ sup.on
    /\ ~sup.cancelled
    /\ sup' = [sup EXCEPT !.cancelled = TRUE]
    /\ UNCHANGED <<updVars, swap, logs, auth, sec, compat, doc>>

\* cmd.Start(): on failure recordExit(err, false) and sleep; on success
\* recordStart(pid) and the wait for done, restartCh or ctx.
Launch(ch) ==
    {BeginSleep(recordExit(ch, FALSE)),
     [ch EXCEPT !.pc = "wait", !.proc = "alive", !.pid = 1,
                !.termSent = FALSE, !.killSent = FALSE]}

\* The head of the loop: the select on ctx.Done, a pending restart request
\* (dropped) or default, and then the launch.  Go chooses among the ready
\* cases at random.
ChildLoopTop(c) ==
    LET ch == sup.child[c]
    IN  /\ sup.on
        /\ ch.pc = "top"
        /\ \/ /\ sup.cancelled
              /\ SetChild(c, [ch EXCEPT !.pc = "returned"])
           \/ /\ ch.slot > 0
              /\ \E n \in Launch([ch EXCEPT !.slot = ch.slot - 1]) : SetChild(c, n)
           \/ /\ ~sup.cancelled /\ ch.slot = 0
              /\ \E n \in Launch(ch) : SetChild(c, n)

\* The child process exits on its own (also in answer to SIGTERM).
ProcExit(c) ==
    /\ sup.on
    /\ sup.child[c].proc = "alive"
    /\ sup.exits < MaxExits
    /\ sup' = [sup EXCEPT !.exits = sup.exits + 1, !.child[c].proc = "dead"]
    /\ UNCHANGED <<updVars, swap, logs, auth, sec, compat, doc>>

\* case err := <-done with the loop ending instead of going to sleep
ChildExitedGivesUp(c) ==
    LET ch == sup.child[c]
    IN  /\ sup.on
        /\ ch.pc = "wait"
        /\ ch.proc = "dead"
        /\ SetChild(c, [recordExit([ch EXCEPT !.proc = "none"], TRUE) EXCEPT
                            !.pc = "returned"])

\* case err := <-done: recordExit(exitErr, true); runtime > maxBackoff resets
\* the backoff; sleep(backoff).
ChildExited(c) ==
    LET ch == sup.child[c]
    IN  /\ sup.on
        /\ ch.pc = "wait"
        /\ ch.proc = "dead"
        /\ \E long \in BOOLEAN :
              LET r == recordExit([ch EXCEPT !.proc = "none"], TRUE)
                  b == IF long THEN [r EXCEPT !.backoff = sup.cfg.initialBackoff,
                                              !.reset = TRUE]
                       ELSE r
              IN  SetChild(c, BeginSleep(b))

\* case <-c.restartCh with the loop going on to the next launch at once,
\* without signalAndWait
ChildForcedNoWait(c) ==
    LET ch == sup.child[c]
    IN  /\ sup.on
        /\ ch.pc = "wait"
        /\ ch.slot > 0
        /\ SetChild(c, [ch EXCEPT !.slot = ch.slot - 1, !.pc = "top",
                                  !.forced = ch.forced + 1,
                                  !.backoff = sup.cfg.initialBackoff, !.reset = TRUE])

\* case <-c.restartCh with the request taken and the process left running
ChildForcedDrops(c) ==
    LET ch == sup.child[c]
    IN  /\ sup.on
        /\ ch.pc = "wait"
        /\ ch.slot > 0
        /\ SetChild(c, [ch EXCEPT !.slot = ch.slot - 1])

\* case <-c.restartCh: forcedRestart = true; signalAndWait sends SIGTERM
ChildForced(c) ==
    LET ch == sup.child[c]
    IN  /\ sup.on
        /\ ch.pc = "wait"
        /\ ch.slot > 0
        /\ SetChild(c, [ch EXCEPT !.slot = ch.slot - 1, !.pc = "sigterm",
                                  !.mode = "forced", !.termSent = TRUE])

\* case <-ctx.Done(): signalAndWait sends SIGTERM
ChildCancelled(c) ==
    LET ch == sup.child[c]
    IN  /\ sup.on
        /\ ch.pc = "wait"
        /\ sup.cancelled
        /\ SetChild(c, [ch EXCEPT !.pc = "sigterm", !.mode = "ctx", !.termSent = TRUE])

\* What follows signalAndWait when a forced restart is treated as an exit:
\* recordExit(exitErr, true) and then the backoff sleep.
AfterSignalSleeps(ch) ==
    IF ch.mode = "ctx"
    THEN [recordExit([ch EXCEPT !.proc = "none"], FALSE) EXCEPT !.pc = "returned",
                                                                !.mode = "none"]
    ELSE [recordExit([ch EXCEPT !.proc = "none"], TRUE) EXCEPT
              !.pc = "sleep", !.mode = "none", !.forced = ch.forced + 1]

\* What follows signalAndWait: after a cancellation recordExit(exitErr, false)
\* and return; after a forced restart recordExit(exitErr, true), backoff =
\* initialBackoff, continue.
AfterSignal(ch) ==
    IF ch.mode = "ctx"
    THEN [recordExit([ch EXCEPT !.proc = "none"], FALSE) EXCEPT !.pc = "returned",
                                                                !.mode = "none"]
    ELSE [recordExit([ch EXCEPT !.proc = "none"], TRUE) EXCEPT
              !.pc = "top", !.mode = "none", !.forced = ch.forced + 1,
              !.backoff = sup.cfg.initialBackoff, !.reset = TRUE]

\* signalAndWait: case err := <-done
SignalDone(c) ==
    LET ch == sup.child[c]
    IN  /\ sup.on
        /\ ch.pc = "sigterm"
        /\ ch.proc = "dead"
        /\ SetChild(c, AfterSignal(ch))

\* signalAndWait with the escalation left out: it goes on waiting for done
SignalTimeoutNoKill(c) ==
    LET ch == sup.child[c]
    IN  /\ sup.on
        /\ ch.pc = "sigterm"
        /\ SetChild(c, [ch EXCEPT !.pc = "sigkill"])

\* signalAndWait: case <-time.After(c.terminateTimeout): cmd.Process.Kill()
SignalTimeout(c) ==
    LET ch == sup.child[c]
    IN  /\ sup.on
        /\ ch.pc = "sigterm"
        /\ SetChild(c, [ch EXCEPT !.pc = "sigkill", !.killSent = TRUE])

\* signalAndWait: return <-done.  A process that was sent SIGKILL dies.
KillDone(c) ==
    LET ch == sup.child[c]
    IN  /\ sup.on
        /\ ch.pc = "sigkill"
        /\ ch.proc = "dead" \/ ch.killSent
        /\ SetChild(c, AfterSignal(ch))

\* c.sleep: case <-t.C, then backoff = c.nextBackoff(backoff)
SleepWake(c) ==
    LET ch == sup.child[c]
    IN  /\ sup.on
        /\ ch.pc = "sleep"
        /\ SetChild(c, [ch EXCEPT !.pc = "top", !.prevDelay = ch.backoff,
                                  !.reset = FALSE,
                                  !.backoff = nextBackoff(ch.backoff, sup.cfg.maxBackoff)])

\* c.sleep: case <-ctx.Done(): return false, and run returns
SleepCancel(c) ==
    LET ch == sup.child[c]
    IN  /\ sup.on
        /\ ch.pc = "sleep"
        /\ sup.cancelled
        /\ SetChild(c, [ch EXCEPT !.pc = "returned"])

\* TestRestartBackoffWithFailingCommand: a command that exits at once, backoffs
\* of 20 ms and 50 ms, a context of 180 ms.
TestInitialBackoffMs == 20
TestMaxBackoffMs == 50
TestWindowMs == 180

\* The exits recorded by recordExit(err, true) from time t on, up to the
\* deadline, for a process that exits the moment it is started: one now, the
\* next after the backoff.
RECURSIVE RestartsWithin(_, _, _, _)
RestartsWithin(t, backoff, maxBackoff, window) ==
    IF t > window THEN 0
    ELSE 1 + RestartsWithin(t + backoff, nextBackoff(backoff, maxBackoff), maxBackoff, window)

\* Supervisor.Wait returns when both loops have.
WaitReturns == \A c \in Children : sup.child[c].pc = "returned"

\* ----------------------------------------------------------- log buffers
\* The per-child ring buffers of the supervisor and the admin endpoint that
\* reads them.  A Go slice is a pair: whether it is nil, and its elements.
LogLines == {"a", "b"}
NilSlice == [isNil |-> TRUE, elems |-> <<>>]
Slice(s) == [isNil |-> FALSE, elems |-> s]

\* &ringBuffer{lines: make([]string, size)}
newRingBuffer(size) ==
    [lines |-> [i \in 0..(size - 1) |-> ""], next |-> 0, count |-> 0]

RingLen(r) == Cardinality(DOMAIN r.lines)

\* ringBuffer.Add
RingAdd(r, line) ==
    [lines |-> [r.lines EXCEPT ![r.next] = line],
     next |-> (r.next + 1) % RingLen(r),
     count |-> IF r.count < RingLen(r) THEN r.count + 1 ELSE r.count]

RingTailFromNext(r, n) ==
    IF n <= 0 \/ r.count = 0
    THEN NilSlice
    ELSE LET m == IF n > r.count THEN r.count ELSE n
         IN Slice([i \in 1..m |-> r.lines[(r.next + i - 1) % RingLen(r)]])

\* ringBuffer.Tail
RingTail(r, n) ==
    IF n <= 0 \/ r.count = 0
    THEN NilSlice
    ELSE LET m == IF n > r.count THEN r.count ELSE n
             start == (r.next - m + RingLen(r)) % RingLen(r)
         IN Slice([i \in 1..m |-> r.lines[(start + i - 1) % RingLen(r)]])

\* Supervisor.Logs
Logs(component, tail) ==
    IF component \in Children
    THEN RingTail(logs.buf[component], tail)
    ELSE NilSlice

\* The query string of GET /admin/logs: component is a child's name, another
\* name or absent (""); tail is absent or not a number (ok = FALSE) or a
\* number.
Components == Children \cup {"agent", ""}
TailArgs == (0 - 1)..(MaxCapacity + 1)
RawTails == {[ok |-> FALSE, val |-> 0]} \cup {[ok |-> TRUE, val |-> n] : n \in TailArgs}

\* tail := 200; a tail parameter replaces it when it parses and is positive
DefaultTail == 200
ParseTail(rawTail) ==
    IF rawTail.ok /\ rawTail.val > 0 THEN rawTail.val ELSE DefaultTail

NoLogsResponse == [code |-> "none", component |-> "", tail |-> 0, lines |-> NilSlice]

LogsIdle ==
    [on |-> FALSE, capacity |-> 0, buf |-> <<>>, hist |-> <<>>, appends |-> 0,
     resp |-> NoLogsResponse]

\* recordStart, recordExit and pipeOutput: a child's loop or one of its pipe
\* readers adds a line.  hist is every line ever added, in order.
LogAdd(c, line) ==
    /\ logs.on
    /\ logs.appends < MaxAppends
    /\ logs' = [logs EXCEPT !.buf[c] = RingAdd(@, line),
                            !.hist[c] = Append(@, line),
                            !.appends = @ + 1]
    /\ UNCHANGED <<updVars, swap, sup, auth, sec, compat, doc>>

logsHandler(component, rawTail) ==
    /\ logs.on
    /\ IF component = ""
       THEN logs' = [logs EXCEPT !.resp = [code |-> "INVALID_ARGUMENT", component |-> component,
                                           tail |-> 0, lines |-> NilSlice]]
       ELSE LET tail == ParseTail(rawTail)
                out == Logs(component, tail)
            IN logs' = [logs EXCEPT !.resp =
                           [code |-> IF out.isNil THEN "INVALID_COMPONENT" ELSE "OK",
                            component |-> component, tail |-> tail, lines |-> out]]
    /\ UNCHANGED <<updVars, swap, sup, auth, sec, compat, doc>>

\* ------------------------------------------------------- admin middleware
\* Strings are sequences of characters over a two-letter alphabet, one of
\* them the space; addresses are numbers of AddrWidth bits, the highest one
\* standing for the loopback range.
Chars == {" ", "s"}
Strs == UNION {[1..n -> Chars] : n \in 0..MaxStrLen}

RECURSIVE Pow2(_)
Pow2(n) == IF n = 0 THEN 1 ELSE 2 * Pow2(n - 1)

Addrs == 0..(Pow2(AddrWidth) - 1)

RECURSIVE TrimLeft(_)
TrimLeft(str) ==
    IF str # <<>> /\ Head(str) = " " THEN TrimLeft(Tail(str)) ELSE str

RECURSIVE TrimRight(_)
TrimRight(str) ==
    IF str # <<>> /\ str[Len(str)] = " "
    THEN TrimRight(SubSeq(str, 1, Len(str) - 1))
    ELSE str

\* strings.TrimSpace
TrimSpace(str) == TrimRight(TrimLeft(str))

\* An entry of the comma-separated allowlist: empty once trimmed, not a CIDR,
\* or address/bits.
NoNet == [ok |-> FALSE, prefix |-> 0, bits |-> 0]
AllowEntries ==
    {[kind |-> k, addr |-> 0, bits |-> 0] : k \in {"empty", "junk"}}
        \cup {[kind |-> "cidr", addr |-> a, bits |-> b] : a \in Addrs, b \in 0..AddrWidth}

\* net.ParseCIDR: the network is the address masked to its prefix length
ParseCIDR(entry) ==
    IF entry.kind = "cidr"
    THEN [ok |-> TRUE, prefix |-> entry.addr \div Pow2(AddrWidth - entry.bits),
          bits |-> entry.bits]
    ELSE NoNet

\* IPNet.Contains
Contains(network, ip) == ip \div Pow2(AddrWidth - network.bits) = network.prefix

\* parseAllowlist: empty and unparsable entries are skipped
parseAllowlist(raw) ==
    SelectSeq([i \in 1..Len(raw) |-> ParseCIDR(raw[i])], LAMBDA n : n.ok)

\* A remote address: a host that is an address or not one, with or without
\* a port.  NoIP is the nil net.IP.
NoIP == 0 - 1
RemoteAddrs == {[host |-> h, port |-> b] : h \in Addrs \cup {NoIP}, b \in BOOLEAN}

\* parseRemoteIP: net.ParseIP of the host, or of the whole string when it
\* does not split into host and port
parseRemoteIP(remoteAddr) == remoteAddr.host

\* net.IP.IsLoopback
IsLoopback(ip) == ip = Pow2(AddrWidth) - 1

isAllowedAnyWhenEmpty(allowed, ip) ==
    IF ip = NoIP THEN FALSE
    ELSE IF IsLoopback(ip) THEN TRUE
    ELSE allowed = <<>> \/ \E i \in 1..Len(allowed) : Contains(allowed[i], ip)

\* adminMiddleware.isAllowed
isAllowed(allowed, ip) ==
    IF ip = NoIP THEN FALSE
    ELSE IF IsLoopback(ip) THEN TRUE
    ELSE \E i \in 1..Len(allowed) : Contains(allowed[i], ip)

\* The Authorization header: what precedes the credentials ("" when there is
\* no scheme, so that the header is the credentials alone or absent) and the
\* credentials.  Only "Bearer " makes strings.HasPrefix(auth, "Bearer ") true.
Schemes == {"", "Basic ", "Bearer "}
Headers == {[scheme |-> sc, rest |-> r] : sc \in Schemes, r \in Strs}
Routes == {"/admin/update/apply"}

NoRequest == [route |-> "", remoteAddr |-> [host |-> NoIP, port |-> FALSE],
              header |-> [scheme |-> "", rest |-> <<>>]]
NoAuthResponse == [status |-> 0, code |-> "", ran |-> FALSE]

AuthIdle ==
    [on |-> FALSE, token |-> <<>>, rawAllowlist |-> <<>>, allowed |-> <<>>,
     req |-> NoRequest, resp |-> NoAuthResponse, served |-> <<>>]

\* RespondError(w, status, code, ...) and return: next is not called
AuthReject(req, status, code) ==
    auth' = [auth EXCEPT !.req = req,
                         !.resp = [status |-> status, code |-> code, ran |-> FALSE]]

\* The handler func returned by adminMiddleware.wrap, on one request.  served
\* is the routes whose handler next.ServeHTTP has run, in order.
wrap(req) ==
    /\ auth.on
    /\ IF auth.token = <<>>
       THEN AuthReject(req, 500, "ADMIN_TOKEN_MISSING")
       ELSE IF ~isAllowed(auth.allowed, parseRemoteIP(req.remoteAddr))
       THEN AuthReject(req, 403, "FORBIDDEN_IP")
       ELSE IF req.header.scheme # "Bearer "
       THEN AuthReject(req, 401, "UNAUTHORIZED")
       ELSE IF TrimSpace(req.header.rest) # auth.token
       THEN AuthReject(req, 401, "UNAUTHORIZED")
       ELSE /\ Len(auth.served) < MaxServed
            /\ auth' = [auth EXCEPT !.req = req,
                                    !.resp = [status |-> 200, code |-> "", ran |-> TRUE],
                                    !.served = Append(@, req.route)]
    /\ UNCHANGED <<updVars, swap, sup, logs, sec, compat, doc>>

\* ------------------------------------------------------------ secret store
\* state/secrets.json under the home directory, the OPENAI_API_KEY variable of
\* the agent's own environment, and the environment a child is started with.
Keys == {"", "sk-a", "sk-b"}
\* An environment variable is unset, or set to a value that may be empty.
Unset == [set |-> FALSE, val |-> ""]
SetTo(v) == [set |-> TRUE, val |-> v]
EnvValues == {Unset} \cup {SetTo(v) : v \in Keys}

\* os.Getenv: the empty string for a variable that is not set
Getenv(e) == IF e.set THEN e.val ELSE ""

\* The file: absent, or a JSON object with or without the openai_api_key
\* member.
NoSecretFile == [exists |-> FALSE, hasKey |-> FALSE, key |-> ""]

\* json.Marshal(Secrets{OpenAIAPIKey: key}): omitempty leaves an empty key out
MarshalSecrets(key) ==
    [exists |-> TRUE, hasKey |-> key # "", key |-> key]

\* json.Unmarshal into Secrets: a missing member leaves the zero value
UnmarshalSecrets(raw) == IF raw.hasKey THEN raw.key ELSE ""

Loaded(source, key) == [op |-> "load", source |-> source, key |-> key, err |-> FALSE]

LoadStateFirst(e, file) ==
    IF file.exists /\ UnmarshalSecrets(file) # ""
    THEN Loaded("state", UnmarshalSecrets(file))
    ELSE IF Getenv(e) # ""
    THEN Loaded("env", Getenv(e))
    ELSE Loaded("missing", "")

\* secrets.Load
Load(e, file) ==
    IF Getenv(e) # ""
    THEN Loaded("env", Getenv(e))
    ELSE IF ~file.exists
    THEN Loaded("missing", "")
    ELSE IF UnmarshalSecrets(file) # ""
    THEN Loaded("state", UnmarshalSecrets(file))
    ELSE Loaded("missing", "")

\* hasEnv(env, "OPENAI_API_KEY"): an entry that starts with OPENAI_API_KEY=
hasEnv(e) == e.set

\* ensureOpenAIKey: what OPENAI_API_KEY is in the environment handed to the
\* child.  Load runs in the agent, where the variable is not set on this path.
ensureOpenAIKey(e, file) ==
    IF hasEnv(e)
    THEN e
    ELSE LET sec1 == Load(e, file)
         IN IF sec1.err \/ sec1.key = "" THEN e ELSE SetTo(sec1.key)

NoSecResult == [op |-> "none", source |-> "", key |-> "", err |-> FALSE]

SecIdle ==
    [on |-> FALSE, env |-> Unset, file |-> NoSecretFile, hist |-> <<>>,
     res |-> NoSecResult, childKey |-> Unset]

\* One more call against the store; hist is the calls made so far.
SecCall ==
    /\ sec.on
    /\ Len(sec.hist) < MaxSecretCalls
    /\ UNCHANGED <<updVars, swap, sup, logs, auth, compat, doc>>

\* secrets.PutOpenAIKey: the empty key is refused, anything else replaces the
\* file through a temporary file and a rename
PutOpenAIKey(key) ==
    /\ SecCall
    /\ sec' = [sec EXCEPT !.hist = Append(@, [op |-> "put", key |-> key]),
                          !.file = IF key = "" THEN @ ELSE MarshalSecrets(key),
                          !.res = [op |-> "put", source |-> "", key |-> key,
                                   err |-> key = ""]]

\* secrets.DeleteOpenAIKey: a file that is not there is not an error
DeleteOpenAIKey ==
    /\ SecCall
    /\ sec' = [sec EXCEPT !.hist = Append(@, [op |-> "delete", key |-> ""]),
                          !.file = NoSecretFile,
                          !.res = [op |-> "delete", source |-> "", key |-> "",
                                   err |-> FALSE]]

SecLoad ==
    /\ SecCall
    /\ sec' = [sec EXCEPT !.hist = Append(@, [op |-> "load", key |-> ""]),
                          !.res = Load(sec.env, sec.file)]

\* child.run: cmd.Env = c.childEnv() before cmd.Start()
SecLaunch ==
    /\ SecCall
    /\ sec' = [sec EXCEPT !.hist = Append(@, [op |-> "launch", key |-> ""]),
                          !.res = [op |-> "launch", source |-> "", key |-> "",
                                   err |-> FALSE],
                          !.childKey = ensureOpenAIKey(sec.env, sec.file)]

\* ---------------------------------------------------------- version ranges
\* A version string is what strings.Split(s, ".") makes of it: its parts, in
\* order.  A part is a decimal numeral, signed or not, or some other text
\* ("x", or nothing at all).  The empty string is one part with no text.
IntPart(n) == [num |-> TRUE, val |-> n, txt |-> ""]
TextPart(t) == [num |-> FALSE, val |-> 0, txt |-> t]
Parts == {IntPart(n) : n \in (0 - 1)..MaxPart} \cup {TextPart("x"), TextPart("")}
EmptyText == <<TextPart("")>>
\* Every string of three parts, and some of one, two and four.
VersionTexts ==
    [1..3 -> Parts]
        \cup {<<q>> : q \in Parts}
        \cup {<<IntPart(1), q>> : q \in Parts}
        \cup {<<IntPart(1), IntPart(0), IntPart(0), q>> : q \in Parts}

\* strconv.Atoi
Atoi(part) == [ok |-> part.num, val |-> part.val]

NoVersion == [ok |-> FALSE, maj |-> 0, min |-> 0, pat |-> 0]

\* update.ParseVersion
ParseVersion(str) ==
    IF Len(str) # 3 THEN NoVersion
    ELSE IF ~Atoi(str[1]).ok \/ ~Atoi(str[2]).ok \/ ~Atoi(str[3]).ok THEN NoVersion
    ELSE [ok |-> TRUE, maj |-> Atoi(str[1]).val, min |-> Atoi(str[2]).val,
          pat |-> Atoi(str[3]).val]

\* update.CompareVersions: -1, 0 or 1, or an error
CompareVersions(a, b) ==
    LET va == ParseVersion(a)
        vb == ParseVersion(b)
    IN IF ~va.ok \/ ~vb.ok THEN [err |-> TRUE, cmp |-> 0]
       ELSE IF va.maj # vb.maj
       THEN [err |-> FALSE, cmp |-> IF va.maj < vb.maj THEN 0 - 1 ELSE 1]
       ELSE IF va.min # vb.min
       THEN [err |-> FALSE, cmp |-> IF va.min < vb.min THEN 0 - 1 ELSE 1]
       ELSE IF va.pat # vb.pat
       THEN [err |-> FALSE, cmp |-> IF va.pat < vb.pat THEN 0 - 1 ELSE 1]
       ELSE [err |-> FALSE, cmp |-> 0]

\* strings.HasSuffix(max, ".x")
HasSuffixX(max) == Len(max) >= 2 /\ max[Len(max)] = TextPart("x")

\* strings.TrimSuffix(max, ".x") + ".0"
WildcardBase(max) == Append(SubSeq(max, 1, Len(max) - 1), IntPart(0))

\* update.MatchesMax
MatchesMax(version, max) ==
    IF HasSuffixX(max)
    THEN LET vmax == ParseVersion(WildcardBase(max))
             v == ParseVersion(version)
         IN IF ~vmax.ok THEN [err |-> TRUE, ok |-> FALSE]
            ELSE IF ~v.ok THEN [err |-> TRUE, ok |-> FALSE]
            ELSE IF v.maj < vmax.maj THEN [err |-> FALSE, ok |-> TRUE]
            ELSE IF v.maj > vmax.maj THEN [err |-> FALSE, ok |-> FALSE]
            ELSE [err |-> FALSE, ok |-> v.min <= vmax.min]
    ELSE LET c == CompareVersions(version, max)
         IN IF c.err THEN [err |-> TRUE, ok |-> FALSE]
            ELSE [err |-> FALSE, ok |-> c.cmp <= 0]

\* A reason is a fixed text followed by one of the arguments, or nothing.
Reason(text, arg) == [text |-> text, arg |-> arg]
NoReason == Reason("", <<>>)

\* update.IsCompatible
IsCompatible(coreVersion, min, max) ==
    LET c == CompareVersions(coreVersion, min)
        m == MatchesMax(coreVersion, max)
    IN IF min # EmptyText /\ c.err
       THEN [compatible |-> FALSE, reason |-> Reason("invalid core or min version", <<>>)]
       ELSE IF min # EmptyText /\ c.cmp < 0
       THEN [compatible |-> FALSE, reason |-> Reason("Requires payram-core >= ", min)]
       ELSE IF max # EmptyText /\ m.err
       THEN [compatible |-> FALSE, reason |-> Reason("invalid max version", <<>>)]
       ELSE IF max # EmptyText /\ ~m.ok
       THEN [compatible |-> FALSE,
             reason |-> IF HasSuffixX(max)
                        THEN Reason("Requires payram-core ", max)
                        ELSE Reason("Requires payram-core <= ", max)]
       ELSE [compatible |-> TRUE, reason |-> NoReason]

NoMatch == [err |-> FALSE, ok |-> FALSE]
NoCompat == [compatible |-> FALSE, reason |-> NoReason]

\* The environment and the outside world as one GET /admin/update/available
\* meets them: which variables are set, whether the manifest can be fetched
\* and verifies, whether the core answers.
NoAvailReq ==
    [baseURL |-> FALSE, pubkey |-> FALSE, ignoreCompat |-> FALSE, coreURL |-> FALSE,
     fetched |-> FALSE, verified |-> FALSE, reachable |-> FALSE]
AvailReqs ==
    [baseURL : BOOLEAN, pubkey : BOOLEAN, ignoreCompat : BOOLEAN, coreURL : BOOLEAN,
     fetched : BOOLEAN, verified : BOOLEAN, reachable : BOOLEAN]
NoAvailResp ==
    [code |-> "", compatible |-> FALSE, reason |-> NoReason, ignored |-> FALSE]

\* What a POST /admin/update/apply made of the same environment at its
\* compatibility gate: nothing yet, let through, or the code it failed with.
NotApplied == [code |-> "", warned |-> FALSE]

CompatIdle ==
    [pc |-> "off", version |-> EmptyText, min |-> EmptyText, max |-> EmptyText,
     match |-> NoMatch, result |-> NoCompat, req |-> NoAvailReq, resp |-> NoAvailResp,
     applied |-> NotApplied]

\* allowed, err := MatchesMax(version, max)
CallMatchesMax ==
    /\ compat.pc = "matches"
    /\ compat' = [compat EXCEPT !.pc = "matched",
                                !.match = MatchesMax(compat.version, compat.max)]
    /\ UNCHANGED <<updVars, swap, sup, logs, auth, sec, doc>>

\* ok, reason := IsCompatible(core, min, max)
CallIsCompatible ==
    /\ compat.pc = "compatible"
    /\ compat' = [compat EXCEPT !.pc = "checked",
                                !.result = IsCompatible(compat.version, compat.min,
                                                        compat.max)]
    /\ UNCHANGED <<updVars, swap, sup, logs, auth, sec, doc>>

\* RespondError(w, status, code, message)
AvailError(code) == [NoAvailResp EXCEPT !.code = code]

\* RespondOK with the compat block of the body
AvailOK(compatible, reason, ignored) ==
    [code |-> "OK", compatible |-> compatible, reason |-> reason, ignored |-> ignored]

IgnoredKeepsNothing(ignoreCompat, result) ==
    IF ignoreCompat /\ ~result.compatible
    THEN [compatible |-> TRUE, reason |-> Reason("compatibility ignored: ", NoReason)]
    ELSE result

\* if ignoreCompat && !compatible: compatible = true and the reason becomes
\* "compatibility ignored: " followed by the reason IsCompatible gave
Ignored(ignoreCompat, result) ==
    IF ignoreCompat /\ ~result.compatible
    THEN [compatible |-> TRUE, reason |-> Reason("compatibility ignored: ", result.reason)]
    ELSE result

\* updateAvailableHandler, for a GET
updateAvailableHandler ==
    /\ compat.pc = "available"
    /\ LET req == compat.req
           checked == Ignored(req.ignoreCompat,
                              IsCompatible(compat.version, compat.min, compat.max))
           resp ==
             IF ~req.baseURL THEN AvailError("UPDATE_BASE_URL_MISSING")
             ELSE IF ~req.pubkey THEN AvailError("UPDATE_PUBKEY_MISSING")
             ELSE IF ~req.fetched THEN AvailError("UPDATE_FETCH_FAILED")
             ELSE IF ~req.verified THEN AvailError("SIGNATURE_INVALID")
             ELSE IF ~req.coreURL
             THEN IF req.ignoreCompat
                  THEN AvailOK(TRUE, Reason("compatibility ignored: PAYRAM_CORE_URL not set",
                                            <<>>), TRUE)
                  ELSE AvailError("CORE_URL_MISSING")
             ELSE IF ~req.reachable
             THEN IF req.ignoreCompat
                  THEN AvailOK(TRUE, Reason("compatibility ignored: core unreachable", <<>>),
                               TRUE)
                  ELSE AvailError("CORE_UNREACHABLE")
             ELSE AvailOK(checked.compatible, checked.reason, req.ignoreCompat)
       IN  compat' = [compat EXCEPT !.pc = "answered", !.resp = resp]
    /\ UNCHANGED <<updVars, swap, sup, logs, auth, sec, doc>>

\* What the core gave: GetPayramCoreVersion, then IsCompatible against the
\* manifest range.
CoreOf(reachable, result) ==
    IF ~reachable THEN "unreachable"
    ELSE IF result.compatible THEN "compatible" ELSE "incompatible"

GateDecisionNeverIgnores(coreURL, ignoreCompat, core) ==
    IF ~coreURL
    THEN IF ignoreCompat THEN [code |-> "PASSED", warned |-> TRUE]
         ELSE [code |-> "CORE_URL_MISSING", warned |-> FALSE]
    ELSE CASE core = "unreachable" -> [code |-> "CORE_UNREACHABLE", warned |-> FALSE]
           [] core = "incompatible" -> [code |-> "INCOMPATIBLE_CORE", warned |-> FALSE]
           [] core = "compatible" -> [code |-> "PASSED", warned |-> FALSE]

\* The compatibility gate of updateApplyHandler as a decision: the code the
\* call fails with, or PASSED, with a warning where ignore_compat let it by.
GateDecision(coreURL, ignoreCompat, core) ==
    IF ~coreURL
    THEN IF ignoreCompat THEN [code |-> "PASSED", warned |-> TRUE]
         ELSE [code |-> "CORE_URL_MISSING", warned |-> FALSE]
    ELSE CASE core = "unreachable" ->
                IF ignoreCompat THEN [code |-> "PASSED", warned |-> TRUE]
                ELSE [code |-> "CORE_UNREACHABLE", warned |-> FALSE]
           [] core = "incompatible" ->
                IF ignoreCompat THEN [code |-> "PASSED", warned |-> TRUE]
                ELSE [code |-> "INCOMPATIBLE_CORE", warned |-> FALSE]
           [] core = "compatible" -> [code |-> "PASSED", warned |-> FALSE]

\* updateApplyHandler in the environment of the GET, for a call that gets to
\* its compatibility gate: both variables set, the manifest fetched and
\* verified.
ApplyCompatSameEnv ==
    /\ compat.pc \in {"available", "answered"}
    /\ compat.applied = NotApplied
    /\ compat.req.baseURL /\ compat.req.pubkey
    /\ compat.req.fetched /\ compat.req.verified
    /\ LET req == compat.req
           core == CoreOf(req.reachable,
                          IsCompatible(compat.version, compat.min, compat.max))
       IN  compat' = [compat EXCEPT
                        !.applied = GateDecision(req.coreURL, req.ignoreCompat, core)]
    /\ UNCHANGED <<updVars, swap, sup, logs, auth, sec, doc>>

\* -------------------------------------------------- document writers
\* Concurrent calls of SaveStatus on one home directory.  PutOpenAIKey takes
\* the same steps on secrets.json (OpenFile with O_TRUNC, Write, Sync, Close,
\* Rename).  files are the inodes with their contents, tmp and path the inode
\* the names <path>.tmp and <path> refer to (0 when the name does not exist),
\* written the documents handed to a save so far.
Writers == {"w1", "w2"}

\* The document a writer saves: a number of bytes that name the writer.
DocOf(w, n) == [i \in 1..n |-> w]

NoWriter == [pc |-> "idle", fd |-> 0, data |-> <<>>, err |-> FALSE, saves |-> 0]

DocIdle ==
    [on |-> FALSE, files |-> <<>>, tmp |-> 0, path |-> 0, written |-> {},
     w |-> [x \in Writers |-> NoWriter]]

\* write(2) at offset 0 of a file opened without O_APPEND
WriteAt0(old, data) ==
    IF Len(old) <= Len(data) THEN data
    ELSE data \o SubSeq(old, Len(data) + 1, Len(old))

\* tmp := path + ".tmp"; os.WriteFile(tmp, ...) begins: OpenFile(tmp,
\* O_WRONLY|O_CREATE|O_TRUNC) creates the file or empties the one that is there
DocOpen(w) ==
    /\ doc.on
    /\ doc.w[w].pc = "idle"
    /\ doc.w[w].saves < MaxSaves
    /\ \E n \in 1..MaxDocLen :
          LET data == DocOf(w, n)
              created == doc.tmp = 0
              ino == IF created THEN Len(doc.files) + 1 ELSE doc.tmp
          IN  doc' = [doc EXCEPT
                         !.files = IF created THEN Append(doc.files, <<>>)
                                   ELSE [doc.files EXCEPT ![ino] = <<>>],
                         !.tmp = ino,
                         !.written = doc.written \cup {data},
                         !.w[w] = [pc |-> "write", fd |-> ino, data |-> data,
                                   err |-> FALSE, saves |-> doc.w[w].saves + 1]]
    /\ UNCHANGED <<updVars, swap, sup, logs, auth, sec, compat>>

\* f.Write(data); f.Close()
DocWrite(w) ==
    /\ doc.on
    /\ doc.w[w].pc = "write"
    /\ doc' = [doc EXCEPT !.files[doc.w[w].fd] = WriteAt0(doc.files[doc.w[w].fd],
                                                          doc.w[w].data),
                          !.w[w].pc = "rename", !.w[w].fd = 0]
    /\ UNCHANGED <<updVars, swap, sup, logs, auth, sec, compat>>

\* os.Rename(tmp, path); on error os.Remove(tmp) and return the error
DocRename(w) ==
    /\ doc.on
    /\ doc.w[w].pc = "rename"
    /\ IF doc.tmp = 0
       THEN doc' = [doc EXCEPT !.w[w].pc = "idle", !.w[w].err = TRUE]
       ELSE doc' = [doc EXCEPT !.path = doc.tmp, !.tmp = 0, !.w[w].pc = "idle"]
    /\ UNCHANGED <<updVars, swap, sup, logs, auth, sec, compat>>

\* os.ReadFile(path) as LoadStatus does it: no file, or the bytes of the file
NoDocument == [exists |-> FALSE, bytes |-> <<>>]
ReadDocument ==
    IF doc.path = 0 THEN NoDocument
    ELSE [exists |-> TRUE, bytes |-> doc.files[doc.path]]

\* ------------------------------------------------------------ behaviours
\* A fresh home directory: nothing under releases/, no symlinks, no lock, no
\* status file; 
InitHome ==
    /\ links = NoLinks
    /\ releases = <<>>
    /\ residue = 0
    /\ lock = FALSE
    /\ statusFile = NoFile
    /\ call = [p \in Procs |-> IdleCall]
    /\ seedResult = NoSeed
    /\ calls = 0
    /\ swap = SwapIdle
    /\ sup = SupIdle

\* No version check has been asked for.
InitRest ==
    /\ compat = CompatIdle
    /\ doc = DocIdle

Init ==
    /\ InitHome
    /\ faulty = FALSE
    /\ logs = LogsIdle
    /\ auth = AuthIdle
    /\ sec = SecIdle
    /\ InitRest

Next ==
    \/ EnsureSeedRelease
    \/ \E p \in Procs : RequestCancel(p)
    \/ \E p \in Procs : ApplyAcquire(p)
    \/ \E p \in Procs : ApplyMarkAttempt(p)
    \/ \E p \in Procs : ApplyConfig(p)
    \/ \E p \in Procs : ApplyFetch(p)
    \/ \E p \in Procs : ApplyVerify(p)
    \/ \E p \in Procs : ApplyRecordTarget(p)
    \/ \E p \in Procs : ApplyCheckRevoked(p)
    \/ \E p \in Procs : ApplyCompat(p)
    \/ \E p \in Procs : ApplyStage(p)
    \/ \E p \in Procs : ApplyStageChat(p)
    \/ \E p \in Procs : ApplyStageMCP(p)
    \/ \E p \in Procs : ApplyPromoteRemove(p)
    \/ \E p \in Procs : ApplyPromoteRename(p)
    \/ \E p \in Procs : ApplyPromoteCompat(p)
    \/ \E p \in Procs : ApplySwitch(p)
    \/ \E p \in Procs : ApplyRecordSwitch(p)
    \/ \E p \in Procs : ApplyRestart(p)
    \/ \E p \in Procs : ApplyHealth(p)
    \/ \E p \in Procs : ApplyRollbackSwitch(p)
    \/ \E p \in Procs : ApplyRollbackRestart(p)
    \/ \E p \in Procs : ApplyRollbackRecord(p)
    \/ \E p \in Procs : ApplySuccess(p)
    \/ \E p \in Procs : DeferredSave(p)
    \/ \E p \in Procs : Unlock(p)
    \/ \E p \in Procs : Finish(p)
    \/ \E p \in Procs : RollbackAcquire(p)
    \/ \E p \in Procs : RollbackMarkAttempt(p)
    \/ \E p \in Procs : RollbackReadlink(p)
    \/ \E p \in Procs : RollbackSwitch(p)
    \/ \E p \in Procs : RollbackRestart(p)
    \/ \E p \in Procs : RollbackHealth(p)
    \/ \E p \in Procs : RollbackRecord(p)

Spec == Init /\ [][Next]_vars

\* The same program on a disk whose local file operations may fail.
InitIO ==
    /\ InitHome
    /\ faulty = TRUE
    /\ logs = LogsIdle
    /\ auth = AuthIdle
    /\ sec = SecIdle
    /\ InitRest

SpecIO == InitIO /\ [][Next]_vars

\* UpdateSymlinks alone, called on any home a previous call or crash can have
\* left (temporary links included), with any target.
Targets == {NoTarget} \cup {ReleaseDir(v) : v \in Versions}

InitSwap ==
    /\ links = NoLinks
    /\ releases = <<>>
    /\ residue = 0
    /\ lock = FALSE
    /\ statusFile = NoFile
    /\ call = [p \in Procs |-> IdleCall]
    /\ seedResult = NoSeed
    /\ calls = 0
    /\ faulty = FALSE
    /\ sup = SupIdle
    /\ logs = LogsIdle
    /\ auth = AuthIdle
    /\ sec = SecIdle
    /\ InitRest
    /\ \E lk \in [current : Targets, previous : Targets,
                   currentTmp : Targets, previousTmp : Targets],
          nt \in Targets, ds \in SUBSET Versions :
          swap = [pc |-> "readlink", lk |-> lk, pre |-> lk, dirs |-> ds,
                  newTarget |-> nt, oldTarget |-> NoTarget, err |-> FALSE]

NextSwap ==
    \/ SwapReadlink
    \/ SwapRemovePrevTmp
    \/ SwapSymlinkPrev
    \/ SwapRenamePrev
    \/ SwapRemoveCurTmp
    \/ SwapSymlinkCur
    \/ SwapRenameCur

SpecSwap == InitSwap /\ [][NextSwap]_vars

\* The supervisor after New(cfg) and Start(ctx).
InitSup ==
    /\ links = NoLinks
    /\ releases = <<>>
    /\ residue = 0
    /\ lock = FALSE
    /\ statusFile = NoFile
    /\ call = [p \in Procs |-> IdleCall]
    /\ seedResult = NoSeed
    /\ calls = 0
    /\ faulty = FALSE
    /\ swap = SwapIdle
    /\ logs = LogsIdle
    /\ auth = AuthIdle
    /\ sec = SecIdle
    /\ InitRest
    /\ \E cfg \in Configs :
          sup = [on |-> TRUE, cfg |-> cfg, cancelled |-> FALSE, restartAlls |-> 0,
                 exits |-> 0, child |-> [c \in Children |-> NewChild(cfg)]]

NextSup ==
    \/ SupRestartAll
    \/ SupCancel
    \/ \E c \in Children : ChildLoopTop(c)
    \/ \E c \in Children : ProcExit(c)
    \/ \E c \in Children : ChildExited(c)
    \/ \E c \in Children : ChildForced(c)
    \/ \E c \in Children : ChildCancelled(c)
    \/ \E c \in Children : SignalDone(c)
    \/ \E c \in Children : SignalTimeout(c)
    \/ \E c \in Children : KillDone(c)
    \/ \E c \in Children : SleepWake(c)
    \/ \E c \in Children : SleepCancel(c)

SpecSup == InitSup /\ [][NextSup]_vars

\* The same with what the scheduler, the timers and the kernel guarantee:
\* a loop that can take a step takes one, a timer fires, a process sent
\* SIGKILL dies.  Nothing obliges a process to exit on its own, a restart
\* to be requested or the context to be cancelled.
SupFairness ==
    \A c \in Children :
        /\ WF_vars(ChildLoopTop(c))
        /\ WF_vars(ChildExited(c) \/ ChildForced(c) \/ ChildCancelled(c))
        /\ WF_vars(SignalDone(c) \/ SignalTimeout(c))
        /\ WF_vars(KillDone(c))
        /\ WF_vars(SleepWake(c) \/ SleepCancel(c))

\* Termination is looked at for one configuration, the one with the widest
\* range of backoffs.
InitSupLive ==
    /\ InitSup
    /\ sup.cfg = [initialBackoff |-> 1, maxBackoff |-> MaxBackoffUnits]

SpecSupLive == InitSupLive /\ [][NextSup]_vars /\ SupFairness

\* The log buffers after New(cfg) with BufferLines = capacity, and the
\* /admin/logs endpoint from the moment the admin server listens.
InitLogs ==
    /\ InitHome
    /\ faulty = FALSE
    /\ auth = AuthIdle
    /\ sec = SecIdle
    /\ InitRest
    /\ \E capacity \in 1..MaxCapacity :
          logs = [on |-> TRUE, capacity |-> capacity,
                  buf |-> [c \in Children |-> newRingBuffer(capacity)],
                  hist |-> [c \in Children |-> <<>>],
                  appends |-> 0, resp |-> NoLogsResponse]

NextLogs ==
    \/ \E c \in Children, line \in LogLines : LogAdd(c, line)
    \/ \E component \in Components, rawTail \in RawTails : logsHandler(component, rawTail)

SpecLogs == InitLogs /\ [][NextLogs]_vars

\* The admin middleware after NewAdminMiddleware(token, allowlist), for any
\* token and allowlist the environment can hold.
InitAuth ==
    /\ InitHome
    /\ faulty = FALSE
    /\ logs = LogsIdle
    /\ sec = SecIdle
    /\ InitRest
    /\ \E token \in Strs, raw \in UNION {[1..n -> AllowEntries] : n \in 0..MaxAllowEntries} :
          auth = [on |-> TRUE, token |-> token, rawAllowlist |-> raw,
                  allowed |-> parseAllowlist(raw),
                  req |-> NoRequest, resp |-> NoAuthResponse, served |-> <<>>]

NextAuth ==
    \E route \in Routes, remoteAddr \in RemoteAddrs, header \in Headers :
        wrap([route |-> route, remoteAddr |-> remoteAddr, header |-> header])

SpecAuth == InitAuth /\ [][NextAuth]_vars

\* The secret store of a fresh home, in an agent started with any value of
\* OPENAI_API_KEY or none.
InitSec ==
    /\ InitHome
    /\ faulty = FALSE
    /\ logs = LogsIdle
    /\ auth = AuthIdle
    /\ InitRest
    /\ \E e \in EnvValues :
          sec = [on |-> TRUE, env |-> e, file |-> NoSecretFile, hist |-> <<>>,
                 res |-> NoSecResult, childKey |-> Unset]

NextSec ==
    \/ \E key \in Keys : PutOpenAIKey(key)
    \/ DeleteOpenAIKey
    \/ SecLoad
    \/ SecLaunch

SpecSec == InitSec /\ [][NextSec]_vars

\* One call of MatchesMax or of IsCompatible, on any version strings.  The
\* minimum of a range is nothing, a version over the same numbers, or text.
MinTexts ==
    {EmptyText, <<TextPart("x")>>, <<IntPart(1), IntPart(0)>>}
        \cup [1..3 -> {IntPart(n) : n \in 0..MaxPart}]

InitCompat ==
    /\ InitHome
    /\ faulty = FALSE
    /\ logs = LogsIdle
    /\ auth = AuthIdle
    /\ sec = SecIdle
    /\ doc = DocIdle
    /\ \/ \E version \in VersionTexts, max \in VersionTexts :
             compat = [CompatIdle EXCEPT !.pc = "matches", !.version = version,
                                         !.max = max]
       \/ \E core \in VersionTexts, min \in MinTexts, max \in VersionTexts :
             compat = [CompatIdle EXCEPT !.pc = "compatible", !.version = core,
                                         !.min = min, !.max = max]

NextCompat ==
    \/ CallMatchesMax
    \/ CallIsCompatible

SpecCompat == InitCompat /\ [][NextCompat]_vars

\* One GET /admin/update/available: any environment, any manifest range, a
\* core that answers with any version string or does not answer.
CoreTexts == [1..3 -> {IntPart(n) : n \in 0..MaxPart}] \cup {<<TextPart("x")>>}
MaxTexts == [1..3 -> {IntPart(n) : n \in 0..MaxPart} \cup {TextPart("x")}] \cup {EmptyText}

InitAvail ==
    /\ InitHome
    /\ faulty = FALSE
    /\ logs = LogsIdle
    /\ auth = AuthIdle
    /\ sec = SecIdle
    /\ doc = DocIdle
    /\ \E req \in AvailReqs, core \in CoreTexts, min \in MinTexts, max \in MaxTexts :
          compat = [CompatIdle EXCEPT !.pc = "available", !.req = req,
                                      !.version = core, !.min = min, !.max = max]

NextAvail == updateAvailableHandler \/ ApplyCompatSameEnv

SpecAvail == InitAvail /\ [][NextAvail]_vars

\* Two tasks that save the document of one home directory, each up to
\* MaxSaves times, with nothing to keep them apart.
InitDoc ==
    /\ InitHome
    /\ faulty = FALSE
    /\ logs = LogsIdle
    /\ auth = AuthIdle
    /\ sec = SecIdle
    /\ compat = CompatIdle
    /\ doc = [DocIdle EXCEPT !.on = TRUE]

NextDoc ==
    \/ \E w \in Writers : DocOpen(w)
    \/ \E w \in Writers : DocWrite(w)
    \/ \E w \in Writers : DocRename(w)

SpecDoc == InitDoc /\ [][NextDoc]_vars


\* ================================================================ claims
\* What a call observed when it took the lock, and the step at which all its
\* work (deferred save included) is done and only the unlock remains.
Pre(p) == call[p].pre[1]
PreStatus(p) == IF Pre(p).statusFile = NoFile THEN ZeroStatus ELSE Pre(p).statusFile[1]
Returning(p) == call[p].pc = "UNLOCK"
Pos(lg, e) == IF \E i \in 1..Len(lg) : lg[i] = e
              THEN CHOOSE i \in 1..Len(lg) : lg[i] = e ELSE 0
Did(p, e) == Pos(call[p].log, e) > 0
After(p, a, b) == Did(p, b) => (Did(p, a) /\ Pos(call[p].log, a) < Pos(call[p].log, b))
BothBinaries(v) == v \in DOMAIN releases /\ {chatBinaryName, mcpBinaryName} \subseteq releases[v]

\* C1: a call that reaches AcquireUpdateLock while another call holds the lock
\* is answered UPDATE_IN_PROGRESS and changes neither the symlinks, releases/,
\* the status document nor the lock; a call that reaches it while nobody holds
\* the lock becomes the only holder.
LockExclusivity ==
    [][\A p \in Procs :
          (call[p].pc = "idle" /\ call'[p].pc # "idle") =>
             IF \E q \in Procs \ {p} : call[q].holds
             THEN /\ call'[p].pc = "REFUSED"
                  /\ call'[p].result = "UPDATE_IN_PROGRESS"
                  /\ ~call'[p].holds
                  /\ UNCHANGED <<links, releases, residue, statusFile, lock>>
             ELSE /\ call'[p].holds
                  /\ lock'
                  /\ \A q \in Procs \ {p} : ~call'[q].holds]_vars

\* One call holds the lock in the middle of its work, the other was refused.
LockContended ==
    \E p \in Procs, q \in Procs :
        /\ call[p].holds /\ call[p].op = "apply" /\ call[p].pc = "HEALTH"
        /\ call[q].pc = "REFUSED" /\ call[q].op = "rollback"
        /\ call[q].result = "UPDATE_IN_PROGRESS"

\* C2: after an apply whose HEALTH step failed, current is what it was before
\* the apply, previous points to the failed release, and the status document
\* records UPDATE_FAILED_ROLLED_BACK.
AutoRollbackRestores ==
    \A p \in Procs :
        (Returning(p) /\ call[p].result = "UPDATE_FAILED_ROLLED_BACK") =>
            /\ links.current = Pre(p).links.current
            /\ links.previous = ReleaseDir(call[p].manifest.Version)
            /\ LoadStatus.LastErrorCode = "UPDATE_FAILED_ROLLED_BACK"

\* C3: within an apply, the switch of current comes after both artifacts were
\* verified and the staging directory promoted, the status write of
\* current_version after the switch, the restart request after that write and
\* the health probe after the restart request; before a step has run, its
\* effect is not there.
ApplyStepOrder ==
    \A p \in Procs :
        (call[p].op = "apply" /\ call[p].holds) =>
            /\ After(p, "STAGE", "VERIFIED_CHAT")
            /\ After(p, "VERIFIED_CHAT", "VERIFIED_MCP")
            /\ After(p, "VERIFIED_MCP", "PROMOTE")
            /\ After(p, "PROMOTE", "SWITCH")
            /\ After(p, "SWITCH", "RECORD_SWITCH")
            /\ After(p, "RECORD_SWITCH", "RESTART")
            /\ After(p, "RESTART", "HEALTH")
            /\ ~Did(p, "VERIFIED_MCP") => releases = Pre(p).releases
            /\ ~Did(p, "SWITCH") => links = Pre(p).links
            /\ Did(p, "SWITCH") => BothBinaries(call[p].manifest.Version)
            /\ ~Did(p, "RECORD_SWITCH") =>
                   LoadStatus.CurrentVersion = PreStatus(p).CurrentVersion
            /\ ~Did(p, "RESTART") => call[p].restarts = 0
            /\ Did(p, "HEALTH") => call[p].restarts >= 1

\* An apply that ran every step and is about to record its success.
ApplyRanAllSteps ==
    \E p \in Procs :
        /\ call[p].op = "apply" /\ call[p].pc = "SUCCESS"
        /\ Did(p, "HEALTH")
        /\ links.current = ReleaseDir(call[p].manifest.Version)
        /\ Pre(p).links.current # NoTarget
        /\ Pre(p).links.current # links.current

\* C4: whenever both current and previous exist they point to different
\* release directories.
LinksDistinct ==
    (links.current # NoTarget /\ links.previous # NoTarget) =>
        links.current # links.previous

\* C5: the release directory current points to exists and holds both child
\* executables, in every state, the states inside an apply included.
CurrentIsRunnable ==
    links.current # NoTarget =>
        (Resolves(links.current) /\ BothBinaries(VersionFromTarget(links.current)))

\* C6: when apply of version V succeeds from a home whose current was T,
\* current points to releases/V, the status document has current_version V,
\* previous_version basename(T), last_success_version V, in_progress false and
\* no error code, and restart_all was invoked exactly once.
ApplySuccessPost ==
    \A p \in Procs :
        (Returning(p) /\ call[p].op = "apply" /\ call[p].result = "OK") =>
            LET v == call[p].manifest.Version
                st == LoadStatus
            IN  /\ links.current = ReleaseDir(v)
                /\ statusFile # NoFile
                /\ st.CurrentVersion = v
                /\ st.PreviousVersion = VersionFromTarget(Pre(p).links.current)
                /\ st.LastSuccessVersion = v
                /\ st.InProgress = FALSE
                /\ st.LastErrorCode = ""
                /\ call[p].restarts = 1

\* A successful apply over an existing release, after an earlier failure had
\* been recorded.
ApplySucceeded ==
    \E p \in Procs :
        /\ Returning(p) /\ call[p].op = "apply" /\ call[p].result = "OK"
        /\ Pre(p).links.current # NoTarget
        /\ PreStatus(p).LastErrorCode # ""

\* C7: rollback from current -> A, previous -> B ends, when the children are
\* healthy, with rolled_back_to = basename(B), current -> B, previous -> A, at
\* least one restart request and current_version = basename(B),
\* previous_version = basename(A), in_progress = false in the status document.
RollbackSwaps ==
    \A p \in Procs :
        (/\ Returning(p) /\ call[p].op = "rollback"
         /\ Pre(p).links.current # NoTarget /\ Pre(p).links.previous # NoTarget) =>
            LET a == Pre(p).links.current
                b == Pre(p).links.previous
                st == LoadStatus
            IN  /\ call[p].result \in {"OK", "ROLLBACK_HEALTH_FAILED"}
                /\ call[p].result = "OK" =>
                      /\ VersionFromTarget(call[p].prevTarget) = VersionFromTarget(b)
                      /\ links.current = b
                      /\ links.previous = a
                      /\ call[p].restarts >= 1
                      /\ st.CurrentVersion = VersionFromTarget(b)
                      /\ st.PreviousVersion = VersionFromTarget(a)
                      /\ st.InProgress = FALSE

\* A rollback that succeeded between two different releases.
RollbackSucceeded ==
    \E p \in Procs :
        /\ Returning(p) /\ call[p].op = "rollback" /\ call[p].result = "OK"
        /\ Pre(p).links.current # NoTarget /\ Pre(p).links.previous # NoTarget
        /\ Pre(p).links.current # Pre(p).links.previous

\* C8: an apply stopped by SIGNATURE_INVALID has created nothing under
\* releases/, left current and previous alone, requested no restart and never
\* wrote a version into last_attempt_version; it persists the error code with
\* in_progress = false.
SignatureFailureClean ==
    \A p \in Procs :
        (call[p].op = "apply" /\ (call[p].pc = "VERIFY" \/ call[p].result = "SIGNATURE_INVALID")) =>
            /\ releases = Pre(p).releases
            /\ residue = Pre(p).residue
            /\ call[p].stageDir = NoStage
            /\ links = Pre(p).links
            /\ call[p].restarts = 0
            /\ LoadStatus.LastAttemptVersion = ""
            /\ Returning(p) =>
                  /\ LoadStatus.LastErrorCode = "SIGNATURE_INVALID"
                  /\ LoadStatus.LastErrorMessage # ""
                  /\ LoadStatus.InProgress = FALSE

\* An apply refused for its signature, on a home that an earlier apply had
\* already updated.
SignatureRejected ==
    \E p \in Procs :
        /\ Returning(p) /\ call[p].result = "SIGNATURE_INVALID"
        /\ PreStatus(p).LastAttemptVersion # ""
        /\ Pre(p).links.previous # NoTarget

\* C9: every failure of apply or rollback after the attempt was marked leaves
\* last_error_code equal to the code returned and a non-empty message.
FailuresRecorded ==
    \A p \in Procs :
        (/\ Returning(p)
         /\ call[p].result # "OK"
         /\ call[p].lastSave # "none") =>
            /\ LoadStatus.LastErrorCode = call[p].result
            /\ LoadStatus.LastErrorMessage # ""

RollbackWithoutPrevious ==
    [][\A p \in Procs :
          (/\ call[p].op = "rollback" /\ Returning(p)
           /\ Pre(p).links.previous = NoTarget
           /\ call'[p] # call[p]) =>
              /\ call[p].result = "NO_PREVIOUS_VERSION"
              /\ links = Pre(p).links
              /\ call[p].restarts = 0
              /\ LoadStatus.LastErrorCode = "NO_PREVIOUS_VERSION"
              /\ LoadStatus.InProgress = FALSE
              /\ lock
              /\ ~lock'
              /\ call'[p].pc = "idle"
              /\ UNCHANGED <<links, statusFile>>]_vars

\* A rollback on a seeded home, which has a current and no previous.
RollbackRefused ==
    \E p \in Procs :
        /\ call[p].op = "rollback" /\ Returning(p)
        /\ call[p].result = "NO_PREVIOUS_VERSION"
        /\ Pre(p).links.current # NoTarget
        /\ Pre(p).links.previous = NoTarget

\* C12: in every state between two filesystem steps of UpdateSymlinks the
\* current link is either what it was when the call began or the new target;
\* a current that existed is never absent, it never takes a target of neither
\* kind, and when both targets are existing directories so is what it
\* resolves to.
SwapTargetExists(t) == t # NoTarget /\ VersionFromTarget(t) \in swap.dirs

SwapCrashAtomic ==
    swap.pc # "off" =>
        /\ \/ swap.lk.current = swap.pre.current
           \/ swap.newTarget # NoTarget /\ swap.lk.current = swap.newTarget
        /\ swap.pre.current # NoTarget => swap.lk.current # NoTarget
        /\ (SwapTargetExists(swap.pre.current) /\ SwapTargetExists(swap.newTarget)) =>
               SwapTargetExists(swap.lk.current)
        /\ swap.lk.current # swap.pre.current => swap.pc = "returned" /\ ~swap.err

\* The call is between creating the temporary link and renaming it, on a
\* home whose current points somewhere else.
SwapMidway ==
    /\ swap.pc = "renCur"
    /\ swap.lk.currentTmp = swap.newTarget
    /\ swap.pre.current # NoTarget
    /\ swap.pre.current # swap.newTarget
    /\ swap.lk.previous = swap.pre.current
    /\ SwapTargetExists(swap.pre.current) /\ SwapTargetExists(swap.newTarget)

\* C13: the restart slot of a child holds at most one request; a RestartAll
\* that finds a request pending adds none; and the forced restarts done on a
\* child, together with the request still pending, never outnumber the
\* requests its slot accepted, which never outnumber the RestartAll calls.
RestartCoalescing ==
    \A c \in Children :
        LET ch == sup.child[c]
        IN  /\ ch.slot \in {0, 1}
            /\ ch.forced + ch.slot <= ch.enq
            /\ ch.enq <= sup.restartAlls
            /\ ch.forced <= sup.restartAlls

\* Two RestartAll calls, the second dropped by a full slot, and the one
\* forced restart they caused done.
RestartCoalesced ==
    \E c \in Children :
        /\ sup.restartAlls = 2
        /\ sup.child[c].enq = 1
        /\ sup.child[c].forced = 1
        /\ sup.child[c].slot = 0

ShutdownTerminates ==
    /\ [](\A c \in Children :
             LET ch == sup.child[c]
             IN  /\ ch.pc = "returned" => (sup.cancelled /\ ch.pid = 0 /\ ch.proc = "none")
                 /\ ch.pc \in {"sigterm", "sigkill"} => ch.termSent
                 /\ ch.killSent => ch.termSent
                 /\ (ch.proc = "alive" /\ ch.killSent) => ch.pc = "sigkill")
    /\ (sup.cancelled ~> WaitReturns)

\* Both loops have returned after a cancellation that found one child
\* running, which needed SIGKILL, and the other in its backoff sleep.
ShutdownEscalated ==
    /\ WaitReturns
    /\ \E c \in Children :
          /\ sup.child[c].killSent
          /\ sup.child[c].pid = 0
          /\ sup.child[c].restarts = 0
    /\ \E c \in Children :
          /\ ~sup.child[c].termSent
          /\ sup.child[c].prevDelay > 0

\* The last m lines of a history, oldest first.
LastLines(h, m) == SubSeq(h, Len(h) - m + 1, Len(h))
Smaller(a, b) == IF a < b THEN a ELSE b

\* C16: after k appends to a ring buffer of capacity C, tail(N) is exactly the
\* last min(N, min(k, C)) appended lines, oldest first, for every N >= 0, and
\* tail(0) has no lines
TailIsLastLines ==
    logs.on =>
        \A c \in Children :
            /\ \A n \in 0..(MaxCapacity + 1) :
                  RingTail(logs.buf[c], n).elems =
                      LastLines(logs.hist[c],
                                Smaller(n, Smaller(Len(logs.hist[c]), logs.capacity)))
            /\ Len(RingTail(logs.buf[c], 0).elems) = 0

\* a buffer that has wrapped around, read through the endpoint with a tail
\* shorter than what it holds
TailAfterWrap ==
    \E c \in Children :
        /\ Len(logs.hist[c]) > logs.capacity
        /\ logs.capacity = MaxCapacity
        /\ logs.resp.code = "OK"
        /\ logs.resp.component = c
        /\ logs.resp.tail = 2
        /\ logs.resp.lines.elems = <<"a", "b">>
        /\ logs.resp.lines.elems = LastLines(logs.hist[c], 2)

\* C17: Logs(name, tail) with tail > 0 is nil only for a name that is not a
\* supervised child, so /admin/logs answers INVALID_COMPONENT exactly when the
\* component is neither chat nor mcp
LogsNilOnlyForUnknown ==
    logs.resp.code \in {"OK", "INVALID_COMPONENT"} =>
        /\ logs.resp.lines.isNil <=> logs.resp.component \notin Children
        /\ logs.resp.code = "INVALID_COMPONENT" <=> logs.resp.component \notin Children

\* What the request presents as its bearer token: the credentials that follow
\* "Bearer " without the white space around them; nothing when the header is
\* absent or names another scheme.
PresentsToken(req, token) ==
    /\ req.header.scheme = "Bearer "
    /\ TrimSpace(req.header.rest) = token

\* loopback, or inside a network of the allowlist as configured
AddressAdmitted(raw, remoteAddr) ==
    /\ remoteAddr.host \in Addrs
    /\ \/ remoteAddr.host = Pow2(AddrWidth) - 1
       \/ \E i \in 1..Len(raw) :
             /\ raw[i].kind = "cidr"
             /\ \A bit \in 1..raw[i].bits :
                   (remoteAddr.host \div Pow2(AddrWidth - bit)) % 2
                       = (raw[i].addr \div Pow2(AddrWidth - bit)) % 2

RECURSIVE KeyPut(_)
KeyPut(h) ==
    IF h = <<>> THEN ""
    ELSE LET last == h[Len(h)]
             before == SubSeq(h, 1, Len(h) - 1)
         IN IF last.op = "delete" THEN ""
            ELSE IF last.op = "put" /\ last.key # "" THEN last.key
            ELSE KeyPut(before)

\* C19: after any sequence of puts and deletes, load returns (env, E) when
\* OPENAI_API_KEY is set to a non-empty E, whatever is on disk; otherwise
\* (state, K) for the key K of the last put that no delete followed; otherwise
\* (missing, ""); and a delete succeeds, also on a home nothing was written to
SecretStoreReference ==
    [][Len(sec'.hist) > Len(sec.hist) =>
          /\ sec'.res.op = "load" =>
                /\ ~sec'.res.err
                /\ <<sec'.res.source, sec'.res.key>> =
                       IF sec.env.set /\ sec.env.val # ""
                       THEN <<"env", sec.env.val>>
                       ELSE IF KeyPut(sec.hist) # ""
                       THEN <<"state", KeyPut(sec.hist)>>
                       ELSE <<"missing", "">>
          /\ sec'.res.op = "delete" =>
                /\ ~sec'.res.err
                /\ ~sec'.file.exists]_vars

\* put, delete, put again, then a load that answered from the file while the
\* variable was set to the empty string
LoadedSecondPut ==
    /\ sec.env = SetTo("")
    /\ Len(sec.hist) = 4
    /\ sec.hist[1] = [op |-> "put", key |-> "sk-a"]
    /\ sec.hist[2].op = "delete"
    /\ sec.hist[3] = [op |-> "put", key |-> "sk-b"]
    /\ sec.res = Loaded("state", "sk-b")

\* C20: the OPENAI_API_KEY of a launched child is the parent's value when that
\* is set and non-empty, and otherwise, also when the parent has it set to the
\* empty string, the key in the secret store when one is stored
ChildKeyResolution ==
    [][Len(sec'.hist) > Len(sec.hist) /\ sec'.res.op = "launch" =>
          IF sec.env.set /\ sec.env.val # ""
          THEN sec'.childKey = SetTo(sec.env.val)
          ELSE KeyPut(sec.hist) # "" => sec'.childKey = SetTo(KeyPut(sec.hist))]_vars

\* Exactly three dot-separated non-negative integers.
ValidVersion(str) ==
    /\ Len(str) = 3
    /\ \A i \in 1..3 : str[i].num /\ str[i].val >= 0

\* A maximum of the form "M.m.x".
WildcardForm(max) ==
    /\ Len(max) = 3
    /\ max[3] = TextPart("x")
    /\ \A i \in 1..2 : max[i].num /\ max[i].val >= 0

\* a <= b in the lexicographic order of the triples
TripleAtMost(a, b) ==
    \/ a[1].val < b[1].val
    \/ a[1].val = b[1].val /\ a[2].val < b[2].val
    \/ a[1].val = b[1].val /\ a[2].val = b[2].val /\ a[3].val <= b[3].val

\* C21: for a valid version v, MatchesMax(v, "M.m.x") is true exactly when
\* major(v) = M and minor(v) <= m, so that a smaller major does not match; for
\* a concrete max it is true exactly when v <= max as triples
WildcardMaxExact ==
    compat.pc = "matched" /\ ValidVersion(compat.version) =>
        /\ WildcardForm(compat.max) =>
              /\ ~compat.match.err
              /\ compat.match.ok <=>
                    /\ compat.version[1].val = compat.max[1].val
                    /\ compat.version[2].val <= compat.max[2].val
        /\ ValidVersion(compat.max) =>
              /\ ~compat.match.err
              /\ compat.match.ok <=> TripleAtMost(compat.version, compat.max)

\* C22: IsCompatible(core, min, max) is false with a non-empty reason whenever
\* core is not a valid version or a non-empty min or max is malformed, for
\* every combination of empty and non-empty min and max; on valid inputs it
\* is true exactly when core >= min (if given) and core matches max (if given)
CompatRejectsInvalid ==
    compat.pc = "checked" =>
        LET core == compat.version
            min == compat.min
            max == compat.max
            wellFormed ==
                /\ ValidVersion(core)
                /\ min = EmptyText \/ ValidVersion(min)
                /\ max = EmptyText \/ ValidVersion(max) \/ WildcardForm(max)
        IN IF wellFormed
           THEN compat.result.compatible <=>
                    /\ min = EmptyText \/ TripleAtMost(min, core)
                    /\ max = EmptyText \/ MatchesMax(core, max).ok
           ELSE /\ ~compat.result.compatible
                /\ compat.result.reason.text # ""

\* C23: EnsureSeedRelease on a home without current creates releases/0.0.0
\* with both binaries and the compat links, points current at it, sets the
\* status current_version to 0.0.0 only if it was empty and returns
\* (true, "0.0.0"); when a seed source cannot be copied it fails and current
\* is not created; a call on a home that has current returns (false, "") and
\* changes nothing on disk
SeedIdempotent ==
    [][EnsureSeedRelease =>
          IF links.current = NoTarget
          THEN /\ ~seedResult'.err =>
                     /\ seedResult'.created
                     /\ seedResult'.version = SeedVersion
                     /\ links'.current = ReleaseDir(SeedVersion)
                     /\ SeedVersion \in DOMAIN releases'
                     /\ {chatBinaryName, mcpBinaryName, chatLink, mcpLink}
                            \subseteq releases'[SeedVersion]
                     /\ statusFile' # NoFile
                     /\ statusFile'[1].CurrentVersion =
                            IF LoadStatus.CurrentVersion = ""
                            THEN SeedVersion ELSE LoadStatus.CurrentVersion
               /\ seedResult'.err =>
                     /\ ~seedResult'.created
                     /\ seedResult'.version = ""
               /\ seedResult'.cause = "copy" =>
                     /\ seedResult'.err
                     /\ links'.current = NoTarget
                     /\ statusFile' = statusFile
          ELSE /\ seedResult' = [NoSeed EXCEPT !.ran = TRUE]
               /\ UNCHANGED <<links, releases, residue, statusFile>>]_vars

\* the bootstrap was called again on the home it had seeded
SeededTwice ==
    /\ seedResult = [NoSeed EXCEPT !.ran = TRUE]
    /\ links.current = ReleaseDir(SeedVersion)
    /\ links.previous = NoTarget
    /\ statusFile # NoFile
    /\ statusFile[1].CurrentVersion = SeedVersion
    /\ statusFile[1].LastAttemptVersion = ""

\* The error code apply answers with for what the compatibility gate met.
GateCode(cause) ==
    CASE cause = "nourl" -> "CORE_URL_MISSING"
      [] cause = "unreachable" -> "CORE_UNREACHABLE"
      [] cause = "incompatible" -> "INCOMPATIBLE_CORE"
      [] OTHER -> ""

\* C24: without ignore_compat a missing core URL, an unreachable core or a
\* core outside the manifest range stops apply with CORE_URL_MISSING,
\* CORE_UNREACHABLE or INCOMPATIBLE_CORE before any staging or symlink change;
\* with ignore_compat each is bypassed, apply goes on to STAGE and the warning
\* stays with the call up to its success response; a revoked manifest is
\* refused with REVOKED_RELEASE before staging and before the gate is read
CompatGate ==
    [][\A p \in Procs :
          /\ (call[p].pc = "COMPAT" /\ call'[p].pc # "COMPAT") =>
                LET g == call'[p].gate
                IN  IF g.cause # "" /\ ~g.ignore
                    THEN /\ call'[p].result = GateCode(g.cause)
                         /\ call'[p].pc = "DEFER_SAVE"
                         /\ call'[p].stageDir = NoStage
                         /\ Pos(call'[p].log, "STAGE") = 0
                         /\ Pos(call'[p].log, "SWITCH") = 0
                         /\ UNCHANGED <<links, releases, residue>>
                    ELSE /\ call'[p].pc = "STAGE"
                         /\ call'[p].result = ""
                         /\ call'[p].warnings <=> g.cause # ""
          /\ (call[p].pc = "CHECK_REVOKED" /\ call'[p].pc # "CHECK_REVOKED"
                  /\ call[p].manifest.Revoked) =>
                /\ call'[p].result = "REVOKED_RELEASE"
                /\ call'[p].stageDir = NoStage
                /\ Pos(call'[p].log, "STAGE") = 0
                /\ UNCHANGED <<links, releases, residue>>
          /\ (call[p].op = "apply" /\ call'[p].op = "apply"
                  /\ call[p].pc \notin {"COMPAT", "idle"}) =>
                call'[p].warnings = call[p].warnings
          /\ call'[p].result \in {"CORE_URL_MISSING", "CORE_UNREACHABLE",
                                  "INCOMPATIBLE_CORE", "REVOKED_RELEASE"} =>
                UNCHANGED <<links, releases, residue>>]_vars

\* an apply that went through the gate on ignore_compat although the core
\* was out of range, and succeeded with its warning
GateBypassed ==
    \E p \in Procs :
        /\ Returning(p) /\ call[p].op = "apply" /\ call[p].result = "OK"
        /\ call[p].warnings
        /\ links.current = ReleaseDir(call[p].manifest.Version)

SwapFailureIntact ==
    (swap.pc = "returned" /\ swap.err) =>
        /\ swap.lk.current = swap.pre.current
        /\ swap.lk.previous = swap.pre.previous

\* C27: every change of the current or the previous symlink, by apply, by the
\* rollback inside apply, by rollback or by the seed bootstrap, is made by a
\* task that holds the update lock at that moment
LinksChangeUnderLock ==
    [][(links'.current # links.current \/ links'.previous # links.previous) =>
          /\ lock
          /\ \E p \in Procs : call[p].holds /\ call'[p] # call[p]]_vars

\* C28: a restart request received while the process of a child runs makes
\* the loop send SIGTERM; SIGKILL is sent only by the terminate timeout, after
\* SIGTERM; the loop goes on only once the process is reaped, then records
\* the exit (pid 0, one more restart), sets the backoff to initial_backoff and
\* is back at the head of the loop without a sleep, where the next process is
\* started before any sleep (a sleep follows only a failed start, and the
\* loop returns instead when the context is cancelled).
ForcedRestartSequence ==
    [][\A c \in Children :
          LET ch == sup.child[c]
              nx == sup'.child[c]
              signalling == ch.pc \in {"sigterm", "sigkill"} /\ ch.mode = "forced"
          IN  /\ (ch.pc = "wait" /\ nx.slot < ch.slot) =>
                    /\ nx.pc = "sigterm" /\ nx.mode = "forced"
                    /\ nx.termSent /\ ~nx.killSent
              /\ (nx.killSent /\ ~ch.killSent) =>
                    /\ ch.pc = "sigterm" /\ ch.termSent
                    /\ nx.pc = "sigkill"
              /\ (signalling /\ nx # ch /\ nx.slot = ch.slot /\ nx.proc = ch.proc) =>
                    /\ nx.pc = "sigkill" /\ ch.pc = "sigterm"
                    /\ nx.forced = ch.forced /\ nx.restarts = ch.restarts
              /\ (signalling /\ nx.pc \notin {"sigterm", "sigkill"}) =>
                    /\ ch.proc = "dead" \/ ch.killSent
                    /\ nx.proc = "none" /\ nx.pid = 0
                    /\ nx.restarts = ch.restarts + 1
                    /\ nx.forced = ch.forced + 1
                    /\ nx.backoff = sup.cfg.initialBackoff
                    /\ nx.pc = "top"
              /\ (ch.pc = "top" /\ nx.pc # "top") =>
                    \/ nx.pc = "wait" /\ nx.proc = "alive" /\ nx.backoff = ch.backoff
                    \/ nx.pc = "returned" /\ sup.cancelled
                    \/ nx.pc = "sleep" /\ nx.proc = "none" /\ nx.restarts = ch.restarts]_vars

\* A child that crashed and slept, so that its backoff had grown, was then
\* restarted by force: its process needed SIGKILL, and the next process runs
\* with the backoff back at initial_backoff.
ForcedRestartDone ==
    \E c \in Children :
        LET ch == sup.child[c]
        IN  /\ ch.pc = "wait" /\ ch.proc = "alive"
            /\ ch.forced = 1
            /\ ch.restarts = 2
            /\ ch.prevDelay > 0
            /\ ch.reset
            /\ sup.cfg.initialBackoff < sup.cfg.maxBackoff
            /\ ch.backoff = sup.cfg.initialBackoff

\* C29: a restart request bypasses the backoff in every state of the loop:
\* while a child waits out a backoff delay with a request in its slot, the
\* loop can take the request, ending the sleep before its timer runs out.
RestartBypassesBackoff ==
    \A c \in Children :
        (sup.on /\ ~sup.cancelled /\ sup.child[c].pc = "sleep" /\ sup.child[c].slot > 0) =>
            ENABLED (NextSup /\ sup'.child[c].slot < sup.child[c].slot)

\* C30: a request cancelled after the switch does not stop the apply: the
\* health wait of a cancelled call still ends in success or in the deadline;
\* after a failed wait the symlinks are restored, the children restarted and
\* UPDATE_FAILED_ROLLED_BACK recorded as for any other call; and an apply that
\* has switched ends either with the success or with the rollback in the
\* status document.
CancelKeepsUpdate ==
    [][\A p \in Procs :
          LET c == call[p]
              n == call'[p]
              acts == c.op = "apply" /\ c.cancelled /\ n # c
          IN  /\ (acts /\ c.pc \in {"RECORD_SWITCH", "RESTART"}) =>
                    /\ n.result = ""
                    /\ n.pc = IF c.pc = "RECORD_SWITCH" THEN "RESTART" ELSE "HEALTH"
              /\ (acts /\ c.pc = "HEALTH") =>
                    /\ n.pc \in {"SUCCESS", "ROLLBACK_SWITCH"}
                    /\ n.result = ""
                    /\ LastEvent(n.log) = "HEALTH"
              /\ (acts /\ c.pc = "ROLLBACK_SWITCH") =>
                    /\ n.pc = "ROLLBACK_RESTART"
                    /\ links' = UpdateSymlinks(links, c.oldTarget, "none").links
              /\ (acts /\ c.pc = "ROLLBACK_RESTART") =>
                    /\ n.pc = "ROLLBACK_RECORD"
                    /\ n.restarts = c.restarts + 1
              /\ (acts /\ c.pc = "ROLLBACK_RECORD") =>
                    /\ n.result = "UPDATE_FAILED_ROLLED_BACK"
                    /\ statusFile' # NoFile
                    /\ statusFile'[1].LastErrorCode = "UPDATE_FAILED_ROLLED_BACK"
              /\ (acts /\ c.pc = "SUCCESS") =>
                    /\ n.result = "OK"
                    /\ statusFile' # NoFile
                    /\ statusFile'[1].LastSuccessVersion = c.manifest.Version
              /\ (Returning(p) /\ c.op = "apply" /\ Did(p, "SWITCH")) =>
                    \/ /\ c.result = "OK"
                       /\ LoadStatus.LastSuccessVersion = c.manifest.Version
                       /\ LoadStatus.LastErrorCode = ""
                    \/ /\ c.result = "UPDATE_FAILED_ROLLED_BACK"
                       /\ LoadStatus.LastErrorCode = "UPDATE_FAILED_ROLLED_BACK"
                       /\ c.restarts = 2]_vars

\* An apply over an existing release whose caller went away between the
\* switch and the end of the health wait, and which was rolled back all the
\* same.
CancelledRolledBack ==
    \E p \in Procs :
        /\ Returning(p) /\ call[p].op = "apply"
        /\ call[p].cancelled
        /\ call[p].cancelAfter = "SWITCH"
        /\ call[p].result = "UPDATE_FAILED_ROLLED_BACK"
        /\ Pre(p).links.current # NoTarget
        /\ links.current = Pre(p).links.current
        /\ LoadStatus.LastErrorCode = "UPDATE_FAILED_ROLLED_BACK"
        /\ ~LoadStatus.InProgress

\* C31: with saves of the document running concurrently, a reader sees at
\* every moment either no file or the complete content of one single save,
\* and once every writer has returned the file holds the complete content
\* written by one of them.
NoTornDocuments ==
    /\ ReadDocument.exists => ReadDocument.bytes \in doc.written
    /\ (doc.written # {} /\ \A w \in Writers : doc.w[w].pc = "idle") =>
          ReadDocument.exists /\ ReadDocument.bytes \in doc.written

\* A child owes a launch: a restart request is in its slot, or it is stopping
\* its process for one, or it is at the head of its loop.
OwesLaunch(c) ==
    /\ sup.child[c].pc # "returned"
    /\ \/ sup.child[c].slot > 0
       \/ sup.child[c].mode = "forced"
       \/ sup.child[c].pc = "top"

\* C32: no restart is lost by coalescing.  After every RestartAll each child
\* whose loop has not returned owes a launch, also when its slot was full or
\* the child was between exit and relaunch; a child stops owing it only by
\* starting a process (at the head of the loop, after the call) or, once the
\* context is cancelled, by returning; and it never owes it for ever.
NoRestartLost ==
    /\ [][\A c \in Children :
             /\ (sup'.restartAlls > sup.restartAlls /\ sup.child[c].pc # "returned") =>
                   OwesLaunch(c)' /\ sup'.child[c].slot = 1
             /\ (OwesLaunch(c) /\ ~OwesLaunch(c)') =>
                   \/ /\ sup.child[c].pc = "top"
                      /\ sup'.child[c].pc \in {"wait", "sleep"}
                   \/ sup.cancelled /\ sup'.child[c].pc = "returned"]_vars
    /\ \A c \in Children : []<>~OwesLaunch(c)

\* Two RestartAll calls reached a child that was waiting out a backoff: the
\* second found the slot full, and the child has since started a process
\* without any forced restart.
CoalescedThenLaunched ==
    \E c \in Children :
        /\ sup.restartAlls = 2
        /\ sup.child[c].enq = 1
        /\ sup.child[c].forced = 0
        /\ sup.child[c].slot = 0
        /\ sup.child[c].prevDelay > 0
        /\ sup.child[c].pc = "wait"
        /\ ~sup.cancelled

\* No apply or rollback is in flight.
AtRest == ~lock /\ \A p \in Procs : ~InFlight(p)

\* C33: whenever no apply or rollback is in flight, after any sequence of
\* seed, apply and rollback calls with any outcomes, the persisted
\* current_version is the basename of the target of current and
\* previous_version the basename of the target of previous (empty when the
\* link is absent).
StatusMatchesLinks ==
    AtRest =>
        /\ LoadStatus.CurrentVersion = VersionFromTarget(links.current)
        /\ LoadStatus.PreviousVersion = VersionFromTarget(links.previous)

OneProcessPerChild ==
    /\ [](\A c \in Children :
             /\ sup.child[c].pc \in {"top", "sleep", "returned"} =>
                   sup.child[c].proc = "none" /\ sup.child[c].pid = 0
             /\ sup.child[c].pc \in {"wait", "sigterm", "sigkill"} =>
                   sup.child[c].proc \in {"alive", "dead"})
    /\ [][\A c \in Children :
             /\ (sup'.child[c].proc = "alive" /\ sup.child[c].proc # "alive") =>
                   /\ sup.child[c].proc = "none"
                   /\ sup.child[c].pc = "top" /\ sup'.child[c].pc = "wait"
             /\ (sup.child[c].proc # "none" /\ sup'.child[c].proc = "none") =>
                   \/ sup.child[c].proc = "dead"
                   \/ sup.child[c].killSent /\ sup.child[c].pc = "sigkill"]_vars

\* One child runs its third process, after a natural exit and a forced
\* restart; the other has returned after the shutdown stopped its process.
ThirdProcessRunning ==
    \E c \in Children, d \in Children :
        /\ sup.child[c].pc = "wait" /\ sup.child[c].proc = "alive"
        /\ sup.child[c].restarts = 2 /\ sup.child[c].forced = 1
        /\ sup.child[d].pc = "returned" /\ sup.child[d].termSent
        /\ sup.child[d].proc = "none"

\* C37: once the parent context has been cancelled a child loop launches no
\* further process, however the cancellation interleaves with pending restart
\* requests and backoff sleeps.
NoLaunchAfterCancel ==
    [][\A c \in Children :
          (sup.cancelled /\ sup.child[c].pc = "top") =>
              sup'.child[c].pc \in {"top", "returned"}]_vars

NoStagingResidue ==
    \A p \in Procs :
        (/\ Returning(p) /\ call[p].op = "apply"
         /\ call[p].result \in {"STAGE_CREATE_FAILED", "UPDATE_DOWNLOAD_FAILED",
                                "FINALIZE_FAILED"}) =>
            /\ residue = Pre(p).residue
            /\ DOMAIN releases = DOMAIN Pre(p).releases

\* The codes the compatibility gate of apply fails with.
GateCodes == {"CORE_URL_MISSING", "CORE_UNREACHABLE", "INCOMPATIBLE_CORE"}

====
